---- MODULE Spec2Model ----
(***************************************************************************)
(* Levtiades atlas builder: fusion of the Levinson (brainstem), Tian       *)
(* (subcortical) and Destrieux (cortical) label volumes, sequential        *)
(* reindexing, hemisphere reordering, label files and centroid validation  *)
(* as done by levtiades_atlas/2_levtiades_to_mni2009c.py and by the        *)
(* scripts under legacy_scripts/, with the combination of the Levinson     *)
(* components, the individual ROI files and the overlap report.            *)
(*                                                                         *)
(* A label volume is a function from voxel positions to integer codes; to  *)
(* keep the centroid arithmetic exact the grid is one line of NVox voxels  *)
(* (position v has voxel coordinate v), which keeps every masking,         *)
(* overwrite and counting step of the code unchanged.  Files are state     *)
(* variables; "written" is the set of file names written so far.           *)
(***************************************************************************)
EXTENDS Integers, FiniteSets, Sequences, TLC

\* ---------------------------------------------------------------- bounds
NVox == 2

Voxels == 1..NVox

\* Local codes occurring in the aligned input layers.  Tian code 55 lies
\* outside the 54 regions the scripts expect; Destrieux 42 is the left
\* medial wall, 1 a left and 76 a right cortical region, 151 a code that
\* destrieux_labels.txt does not list.
LevCodes == {0, 1, 2}
TianCodes == {0, 1, 2, 55}
DesCodes == {0, 1, 42, 76, 151}

\* ------------------------------------------------------ program constants
MEDIAL_WALL_LABELS == {42, 117}
LEVINSON_LABEL_NAMES == [k \in 1..5 |-> <<"Levinson", k>>]
TIAN_OFFSET == 5
DES_OFFSET == 59
LEGACY_TIAN_OFFSET == 100
LEGACY_DES_OFFSET == 200
VARIANT_TIAN_OFFSET == 1000
VARIANT_DES_OFFSET == 2000
N_TIAN == 54

\* ----------------------------------------------------------- numpy helpers
\* data.astype(np.int16) / assignment into an int16 array: wraps modulo 2^16
ToInt16(x) == ((x + 32768) % 65536) - 32768

\* np.unique(data[data > 0])
Unique(vol) == {vol[v] : v \in {w \in Voxels : vol[w] > 0}}

\* (mask).sum() for mask = {v : P(v)}
Count(mask) == Cardinality(mask)

\* position (1-based) of x in sorted(S)
Rank(S, x) == Cardinality({y \in S : y < x}) + 1

ZeroVol == [v \in Voxels |-> 0]
EmptyMap == [k \in {} |-> 0]

VARIABLES
  lev, tian, des,      \* aligned input layers (levinson, tian, destrieux)
  grid,                \* how the grids of the three layer files loaded for fusion relate
  flow,                \* which script (or chain of scripts) is being run
  pc,                  \* last stage of the flow that ran
  rerun,               \* TRUE once the flow has been started a second time
  written,             \* names of the output files written so far
  des_nowall,          \* work/destrieux_no_medial_wall.nii.gz
  label_mapping,       \* work/destrieux_label_mapping.txt
  flat,                \* with_overlaps/levtiades_with_overlaps.nii.gz
  flat_legacy,         \* with_overlaps/levtiades_flat_with_overlaps.nii.gz
  overlaps,            \* overlap statistics dict
  hier,                \* no_overlaps/levtiades_no_overlaps_hierarchical_final.nii.gz
  hier_legacy,         \* no_overlaps/levtiades_hierarchical.nii.gz
  changes,             \* replacement counters returned by create_hierarchical
  temp,                \* no_overlaps/levtiades_temp.nii.gz
  seq,                 \* no_overlaps/levtiades_sequential.nii.gz
  hier_fixed,          \* no_overlaps/levtiades_hierarchical_fixed.nii.gz
  reindex_map,         \* reindexing_map.json
  mapping_ref,         \* index_mapping_reference.csv (set of rows)
  reorder_map,         \* hemisphere_reorder_map.json / reindexing_map_hemisphere.json
  label_seq,           \* final_atlas/levtiades_labels_sequential.txt (index -> name)
  lookup_seq,          \* final_atlas/levtiades_lookup_table_sequential.txt
  label_file,          \* final_atlas/levtiades_labels.txt (set of lines)
  lookup_table,        \* final_atlas/levtiades_lookup_table.txt (set of lines)
  validation,          \* centroid_validation/centroid_validation_results_all.csv
  labels_dict,         \* labels_dict returned by create_label_files
  atlas_csv,           \* final_atlas/levtiades_atlas.csv (index -> row)
  takeovers,           \* reports/region_takeover_analysis.txt (the changes list)
  validation_seq,      \* centroid_validation/centroid_validation_results.csv
  validation_hemi,     \* centroid_validation/hemisphere_centroid_validation_all.csv
  failed,              \* TRUE once the running script has reported failure
  exit_code,           \* exit status of the last script: "none" while it runs
  components,          \* the five Levinson component images, on the LC grid
  levinson_combined,   \* raw_atlases/levinson_combined.nii.gz
  roi_files,           \* individual_rois_sequential/levtiades_roi_<i>.nii.gz (i -> mask)
  overlap_report       \* with_overlaps/overlap_analysis_report.txt (its figures)

inputs == <<lev, tian, des, grid, components>>
ctl == <<flow, pc, rerun>>
mainFiles == <<des_nowall, label_mapping, flat, overlaps, hier, changes>>
legacyFiles == <<flat_legacy, hier_legacy, temp, seq>>
reindexFiles == <<hier_fixed, reindex_map, mapping_ref, reorder_map, label_seq, lookup_seq>>
labelFiles == <<label_file, lookup_table, validation>>
catalogFiles == <<labels_dict, atlas_csv, takeovers>>
reportFiles == <<validation_seq, validation_hemi>>
toolFiles == <<levinson_combined, roi_files, overlap_report>>
vars == <<inputs, ctl, failed, written, mainFiles, legacyFiles, reindexFiles,
          labelFiles, catalogFiles, reportFiles, toolFiles, exit_code>>

\* ------------------------------------------------------------------ fusion
\* create_with_overlaps: flat[lev > 0] = lev; flat[tian > 0] = tian_off;
\* flat[des > 0] = des_off, in this order, into an int16 array
create_with_overlaps_flat(l, t, d, offT, offD) ==
  [v \in Voxels |->
     IF d[v] > 0 THEN ToInt16(d[v] + offD)
     ELSE IF t[v] > 0 THEN ToInt16(t[v] + offT)
     ELSE IF l[v] > 0 THEN ToInt16(l[v])
     ELSE 0]

\* overlaps dict with the pair counts taken over the voxels that the third
\* layer leaves empty
overlap_stats_exclusive(l, t, d) ==
  [levinson_tian      |-> Count({v \in Voxels : l[v] > 0 /\ t[v] > 0 /\ d[v] = 0}),
   levinson_destrieux |-> Count({v \in Voxels : l[v] > 0 /\ d[v] > 0 /\ t[v] = 0}),
   tian_destrieux     |-> Count({v \in Voxels : t[v] > 0 /\ d[v] > 0 /\ l[v] = 0}),
   all_three          |-> Count({v \in Voxels : l[v] > 0 /\ t[v] > 0 /\ d[v] > 0})]

\* overlaps dict of create_with_overlaps
overlap_stats(l, t, d) ==
  [levinson_tian      |-> Count({v \in Voxels : l[v] > 0 /\ t[v] > 0}),
   levinson_destrieux |-> Count({v \in Voxels : l[v] > 0 /\ d[v] > 0}),
   tian_destrieux     |-> Count({v \in Voxels : t[v] > 0 /\ d[v] > 0}),
   all_three          |-> Count({v \in Voxels : l[v] > 0 /\ t[v] > 0 /\ d[v] > 0})]

\* combined after "Layer 3": combined[des_mask] = des[des_mask] + offD
hier_layer3(d, offD) ==
  [v \in Voxels |-> IF d[v] > 0 THEN ToInt16(d[v] + offD) ELSE 0]

\* combined after "Layer 2": combined[tian_mask] = tian[tian_mask] + offT
hier_layer2(t, d, offT, offD) ==
  [v \in Voxels |-> IF t[v] > 0 THEN ToInt16(t[v] + offT) ELSE hier_layer3(d, offD)[v]]

\* combined after "Layer 1": combined[lev_mask] = lev[lev_mask]
hier_layer1(l, t, d, offT, offD) ==
  [v \in Voxels |-> IF l[v] > 0 THEN ToInt16(l[v]) ELSE hier_layer2(t, d, offT, offD)[v]]

\* the layers painted highest priority first, so that the lowest one wins
create_hierarchical_vol_lowest_wins(l, t, d, offT, offD) ==
  [v \in Voxels |->
     IF d[v] > 0 THEN ToInt16(d[v] + offD)
     ELSE IF t[v] > 0 THEN ToInt16(t[v] + offT)
     ELSE IF l[v] > 0 THEN ToInt16(l[v])
     ELSE 0]

\* the volume create_hierarchical saves
create_hierarchical_vol(l, t, d, offT, offD) == hier_layer1(l, t, d, offT, offD)

\* {region -> count} over the values vals[v] - off at the voxels of mask
regions_affected(vol, mask, off) ==
  [r \in {vol[v] - off : v \in mask} |-> Count({v \in mask : vol[v] - off = r})]

RECURSIVE SumOver(_, _)
SumOver(f, S) ==
  IF S = {} THEN 0
  ELSE LET x == CHOOSE y \in S : TRUE IN f[x] + SumOver(f, S \ {x})

\* a ledger that charges Levinson with every Destrieux voxel it covers,
\* whether or not Tian had taken the voxel first
hier_changes_des_under_levinson(l, t, d, offT, offD, desFrom, tianFrom, tianBelow) ==
  LET c3 == hier_layer3(d, offD)
      c2 == hier_layer2(t, d, offT, offD)
      replaced_by_tian == {v \in Voxels : c3[v] >= desFrom /\ t[v] > 0}
      replaced_tian == {v \in Voxels : c2[v] >= tianFrom /\ c2[v] < tianBelow /\ l[v] > 0}
      replaced_des == {v \in Voxels : d[v] > 0 /\ l[v] > 0}
      desAff == regions_affected(c3, replaced_by_tian, offD)
      tianAff == regions_affected(c2, replaced_tian, offT)
  IN [tian_replaced_by_levinson      |-> SumOver(tianAff, DOMAIN tianAff),
      destrieux_replaced_by_tian     |-> SumOver(desAff, DOMAIN desAff),
      destrieux_replaced_by_levinson |-> Count(replaced_des),
      tian_regions_affected          |-> tianAff,
      destrieux_regions_affected     |-> desAff]

\* the "changes" dict of create_hierarchical; desFrom, tianFrom and tianBelow
\* are the band tests the script applies to the partially painted volume
hier_changes(l, t, d, offT, offD, desFrom, tianFrom, tianBelow) ==
  LET c3 == hier_layer3(d, offD)
      c2 == hier_layer2(t, d, offT, offD)
      replaced_by_tian == {v \in Voxels : c3[v] >= desFrom /\ t[v] > 0}
      replaced_tian == {v \in Voxels : c2[v] >= tianFrom /\ c2[v] < tianBelow /\ l[v] > 0}
      replaced_des == {v \in Voxels : c2[v] >= desFrom /\ l[v] > 0}
      desAff == regions_affected(c3, replaced_by_tian, offD)
      tianAff == regions_affected(c2, replaced_tian, offT)
  IN [tian_replaced_by_levinson      |-> SumOver(tianAff, DOMAIN tianAff),
      destrieux_replaced_by_tian     |-> SumOver(desAff, DOMAIN desAff),
      destrieux_replaced_by_levinson |-> Count(replaced_des),
      tian_regions_affected          |-> tianAff,
      destrieux_regions_affected     |-> desAff]

NoChanges ==
  [tian_replaced_by_levinson |-> 0, destrieux_replaced_by_tian |-> 0,
   destrieux_replaced_by_levinson |-> 0,
   tian_regions_affected |-> EmptyMap, destrieux_regions_affected |-> EmptyMap]

NoOverlaps ==
  [levinson_tian |-> 0, levinson_destrieux |-> 0, tian_destrieux |-> 0, all_three |-> 0]

\* create_with_overlaps_atlas (create_atlas_variants.py): the flat volume is
\* painted Destrieux, then Tian, then Levinson, one region mask at a time
variants_flat(l, t, d) ==
  [v \in Voxels |->
     IF l[v] > 0 THEN ToInt16(l[v])
     ELSE IF t[v] > 0 THEN ToInt16(VARIANT_TIAN_OFFSET + t[v])
     ELSE IF d[v] > 0 THEN ToInt16(VARIANT_DES_OFFSET + d[v])
     ELSE 0]

\* recreate_atlas_from_aligned, first half: Levinson regions 1..5, then Tian
\* regions 1..54 as 100+i, then every Destrieux code as 200+code
recreate_combined(l, t, d) ==
  [v \in Voxels |->
     IF d[v] > 0 THEN ToInt16(LEGACY_DES_OFFSET + d[v])
     ELSE IF t[v] \in 1..N_TIAN THEN ToInt16(LEGACY_TIAN_OFFSET + t[v])
     ELSE IF l[v] \in 1..5 THEN l[v]
     ELSE 0]

\* ------------------------------------------------------- medial wall removal
\* remove_medial_wall_from_destrieux: old_label -> new_label over the labels
\* left after the medial wall voxels are zeroed
medial_wall_mapping(d) ==
  LET des_cleaned == [v \in Voxels |-> IF d[v] \in MEDIAL_WALL_LABELS THEN 0 ELSE d[v]]
      unique_labels == Unique(des_cleaned)
  IN [old \in (unique_labels \ MEDIAL_WALL_LABELS) |->
        Rank(unique_labels \ MEDIAL_WALL_LABELS, old)]

\* des_renumbered, saved as int16 by save_nifti_like
remove_medial_wall_vol(d) ==
  LET m == medial_wall_mapping(d)
  IN [v \in Voxels |-> IF d[v] \in DOMAIN m THEN ToInt16(m[d[v]]) ELSE 0]

\* --------------------------------------------------------------- reindexing
\* recreate_atlas_from_aligned, second half: Levinson 1..5 keep their number
\* (new_index advances for each of the five), Tian 101..154 and Destrieux
\* 201+ continue sequentially over the labels that are present
recreate_sequential(c) ==
  LET tianPresent == {x \in Unique(c) : x >= 101 /\ x < 155}
      desPresent == {x \in Unique(c) : x >= 201}
  IN [v \in Voxels |->
        IF c[v] \in 1..5 THEN c[v]
        ELSE IF c[v] \in tianPresent THEN ToInt16(5 + Rank(tianPresent, c[v]))
        ELSE IF c[v] \in desPresent
             THEN ToInt16(5 + Cardinality(tianPresent) + Rank(desPresent, c[v]))
        ELSE 0]


\* ------------------------------------------------------------- label tables
\* A region name is modelled as the pair <<table, key>>: the entry of key in
\* that label table, or the fallback f"{table}_{key}" the scripts use when
\* the table has no such key.
levinson_label(old_idx) == <<"Levinson", old_idx>>
tian_label(original_idx) == <<"Tian", original_idx>>
destrieux_label(original_idx) == <<"Destrieux", original_idx>>

\* destrieux_labels.txt lists 0 (Unknown), 1..75 (left hemisphere, 42 the
\* medial wall) and 76..150 (right hemisphere, 117 the medial wall); the
\* loaders skip 0, 42 and 117
WALL_REGIONS == {0, 42, 117}
DES_LABEL_KEYS == (1..150) \ WALL_REGIONS

\* the hemisphere prefix ('L ' or 'R ') carried by a Destrieux region name;
\* the fallback name Destrieux_<n> carries none
des_name_hemisphere(name) ==
  IF name[1] = "Destrieux" /\ name[2] \in DES_LABEL_KEYS
  THEN (IF name[2] <= 75 THEN "L" ELSE "R")
  ELSE "none"

\* ------------------------------------------------------ fix_and_create_rois
\* create_fixed_atlas: zero the voxels of 200 + idx for every wall region
create_fixed_atlas(hier_data) ==
  [v \in Voxels |->
     IF hier_data[v] \in {idx + LEGACY_DES_OFFSET : idx \in WALL_REGIONS} THEN 0
     ELSE ToInt16(hier_data[v])]

\* ------------------------------------------------------------ reindex_atlas
\* index of x in the concatenation of the sorted groups gs[1], gs[2], ...
RECURSIVE ConcatRank(_, _)
ConcatRank(gs, x) ==
  IF gs = <<>> THEN 0
  ELSE IF x \in Head(gs) THEN Rank(Head(gs), x)
  ELSE Cardinality(Head(gs)) + ConcatRank(Tail(gs), x)

\* the map that numbers the members of the groups 1, 2, ... in sequence
SequentialMap(gs) ==
  [x \in UNION {gs[i] : i \in DOMAIN gs} |-> ConcatRank(gs, x)]

\* create_reindexing_map: Levinson (< 100), Tian (100..199), Destrieux (>= 200)
create_reindexing_map_append(atlas_data) ==
  LET old_labels == Unique(atlas_data)
      m == SequentialMap(<< {l \in old_labels : l < 100},
                            {l \in old_labels : l >= 100 /\ l < 200},
                            {l \in old_labels : l >= 200} >>)
  IN [l \in DOMAIN m |-> Cardinality(DOMAIN reindex_map) + m[l]]

create_reindexing_map(atlas_data) ==
  LET old_labels == Unique(atlas_data)
  IN SequentialMap(<< {l \in old_labels : l < 100},
                      {l \in old_labels : l >= 100 /\ l < 200},
                      {l \in old_labels : l >= 200} >>)

\* the entries applied in ascending key order to the array being read: a
\* voxel relabelled to a later key is relabelled again by that entry
apply_index_map_in_place(map, atlas_data) ==
  [v \in Voxels |->
     IF atlas_data[v] \in DOMAIN map
     THEN LET b == map[atlas_data[v]]
          IN IF b > atlas_data[v] /\ b \in DOMAIN map
             THEN ToInt16(map[b]) ELSE ToInt16(b)
     ELSE 0]

\* new_atlas_data[atlas_data == old_label] = new_label over an int16 array
\* of zeros (create_reindexed_atlas, apply_hemisphere_reordering, ...)
apply_index_map(map, atlas_data) ==
  [v \in Voxels |->
     IF atlas_data[v] \in DOMAIN map THEN ToInt16(map[atlas_data[v]]) ELSE 0]

\* a weaker check: only a gain of voxels is noticed
voxels_preserved_no_gain(atlas_data, new_atlas_data) ==
  Count({v \in Voxels : atlas_data[v] > 0})
    >= Count({v \in Voxels : new_atlas_data[v] > 0})

\* "Verify no data loss": np.sum(atlas_data > 0) == np.sum(new_atlas_data > 0)
voxels_preserved(atlas_data, new_atlas_data) ==
  Count({v \in Voxels : atlas_data[v] > 0})
    = Count({v \in Voxels : new_atlas_data[v] > 0})

\* source and name of a band-coded label (create_index_mapping_reference,
\* create_sequential_label_file)
band_source(old_idx) ==
  IF old_idx < 100 THEN "Levinson"
  ELSE IF old_idx < 200 THEN "Tian" ELSE "Destrieux"

band_name(old_idx) ==
  IF old_idx < 100 THEN levinson_label(old_idx)
  ELSE IF old_idx < 200 THEN tian_label(old_idx - LEGACY_TIAN_OFFSET)
  ELSE destrieux_label(old_idx - LEGACY_DES_OFFSET)

\* create_index_mapping_reference: one row per entry of reindexing_map.json
create_index_mapping_reference(map) ==
  {[old_index |-> old_idx, new_index |-> map[old_idx],
    source |-> band_source(old_idx), region_name |-> band_name(old_idx)]
     : old_idx \in DOMAIN map}

clamp(x) == IF x < 0 THEN 0 ELSE IF x > 255 THEN 255 ELSE x

\* create_sequential_lookup_table: colour from the band and the local code
sequential_colour(old_idx) ==
  IF old_idx < 100
  THEN <<clamp(255 - old_idx * 20), clamp(100 + old_idx * 30), 50>>
  ELSE IF old_idx < 200
  THEN LET o == old_idx - LEGACY_TIAN_OFFSET
       IN <<clamp(50 + (o % 5) * 20), clamp(150 + (o % 10) * 10),
            clamp(100 + (o % 5) * 20)>>
  ELSE LET o == old_idx - LEGACY_DES_OFFSET
       IN <<clamp(100 + (o % 5) * 20), clamp(100 + (o % 10) * 10),
            clamp(200 + (o % 3) * 20)>>

\* reverse_map = {new_idx: old_idx for old_idx, new_idx in map.items()};
\* on a duplicate new_idx the later item (the larger old_idx here) wins
reverse_map(map) ==
  [n \in {map[o] : o \in DOMAIN map} |->
     CHOOSE o \in DOMAIN map :
       map[o] = n /\ \A o2 \in DOMAIN map : map[o2] = n => o2 <= o]

create_sequential_label_file(map) ==
  [new_idx \in DOMAIN reverse_map(map) |-> band_name(reverse_map(map)[new_idx])]

create_sequential_lookup_table(map) ==
  [new_idx \in DOMAIN reverse_map(map) |->
     [rgb |-> sequential_colour(reverse_map(map)[new_idx]),
      source |-> band_source(reverse_map(map)[new_idx]),
      name |-> band_name(reverse_map(map)[new_idx])]]

\* ---------------------------------------------------------------- centroids
\* ndimage.center_of_mass(mask) followed by apply_affine: the world
\* coordinate TARGET_RES * (sum of positions) / (number of voxels), kept as
\* the pair <<numerator, denominator>>; <<>> stands for None
TARGET_RES == 2
NoneCoord == <<>>
IdVol == [v \in Voxels |-> v]
centroid_vox(mask) ==
  IF mask = {} THEN NoneCoord ELSE <<SumOver(IdVol, mask), Count(mask)>>
centroid_mni(mask) ==
  IF mask = {} THEN NoneCoord ELSE <<TARGET_RES * SumOver(IdVol, mask), Count(mask)>>
Abs(x) == IF x < 0 THEN -x ELSE x
\* np.sqrt(np.sum((a - b)**2)) on one axis, as <<numerator, denominator>>
distance_mm(a, b) == <<Abs(a[1] * b[2] - b[1] * a[2]), a[2] * b[2]>>
\* distance < limit
closer_than(d, limit) == d[1] < limit * d[2]
MaskOf(vol, label) == {v \in Voxels : vol[v] = label}

\* ------------------------------------------- hemisphere reordering scripts
\* fix_hemisphere_ordering.py create_hemisphere_reordering_map and
\* create_final_atlas.py: the five lists are filled from the rows of
\* index_mapping_reference.csv and keyed by the rows' new_index
RowsIndexes(rows) == {r.new_index : r \in rows}
create_hemisphere_reordering_map(mapping_df) ==
  SequentialMap(<<
    RowsIndexes({r \in mapping_df : r.source = "Levinson"}),
    RowsIndexes({r \in mapping_df : r.source = "Tian" /\ r.old_index % 2 = 0}),
    RowsIndexes({r \in mapping_df : r.source = "Tian" /\ r.old_index % 2 = 1}),
    RowsIndexes({r \in mapping_df : r.source = "Destrieux"
                                    /\ des_name_hemisphere(r.region_name) = "L"}),
    RowsIndexes({r \in mapping_df : r.source = "Destrieux"
                                    /\ des_name_hemisphere(r.region_name) = "R"}) >>)

\* remake_atlas_hemisphere_order.py create_hemisphere_ordered_reindexing_map:
\* the lists are filled from the band-coded labels of the loaded atlas
create_hemisphere_ordered_reindexing_map(atlas_data) ==
  LET old_labels == Unique(atlas_data)
      tian_labels == {l \in old_labels : l >= 100 /\ l < 200}
      destrieux_labels == {l \in old_labels : l >= 200}
  IN SequentialMap(<<
       {l \in old_labels : l < 100},
       {l \in tian_labels : l % 2 = 0},
       {l \in tian_labels : l % 2 = 1},
       {l \in destrieux_labels : l <= 275},
       {l \in destrieux_labels : l > 275} >>)

\* hard-coded band boundaries of the hemisphere-ordered label writers
levinson_end == 5
tian_left_end == 32
tian_right_end == 59
des_left_end == 133
LAST_INDEX == 207
tian_left_counter == 28
tian_right_counter == 1

\* mapping_df[mapping_df['new_index'] == old_idx].iloc[0]
mapping_row(mapping_df, idx) == CHOOSE r \in mapping_df : r.new_index = idx

\* the "proper name" of a mapping row (fix_hemisphere_ordering, create_final_atlas)
row_name(row) ==
  IF row.source = "Tian" THEN tian_label(row.old_index - LEGACY_TIAN_OFFSET)
  ELSE row.region_name

\* colours of the hemisphere-ordered lookup tables, by source and new index
hemisphere_colour(source, idx) ==
  IF source = "Levinson"
  THEN <<clamp(255 - idx * 20), clamp(100 + idx * 30), 50>>
  ELSE IF source = "Tian"
  THEN (IF idx <= tian_left_end
        THEN <<clamp(50 + (idx % 5) * 20), clamp(180 + (idx % 8) * 10),
               clamp(120 + (idx % 5) * 20)>>
        ELSE <<clamp(70 + (idx % 5) * 20), clamp(150 + (idx % 8) * 10),
               clamp(100 + (idx % 5) * 20)>>)
  ELSE (IF idx <= des_left_end
        THEN <<clamp(100 + (idx % 5) * 20), clamp(120 + (idx % 10) * 10),
               clamp(220 + (idx % 3) * 10)>>
        ELSE <<clamp(140 + (idx % 5) * 20), clamp(100 + (idx % 10) * 10),
               clamp(200 + (idx % 3) * 20)>>)

\* fix_hemisphere_ordering.py create_hemisphere_ordered_labels_txt: one line
\* per item of reorder_map, named from its row of the mapping reference
fix_label_lines(map, mapping_df) ==
  {[index |-> map[old_idx],
    name |-> row_name(mapping_row(mapping_df, old_idx)),
    source |-> mapping_row(mapping_df, old_idx).source] : old_idx \in DOMAIN map}

fix_lookup_lines(map, mapping_df) ==
  {[index |-> map[old_idx],
    rgb |-> hemisphere_colour(mapping_row(mapping_df, old_idx).source, map[old_idx]),
    name |-> row_name(mapping_row(mapping_df, old_idx)),
    source |-> mapping_row(mapping_df, old_idx).source] : old_idx \in DOMAIN map}

\* create_final_atlas.py update_all_files: only indices that have voxels in
\* the atlas just written get a line
final_indices(map, atlas_data) ==
  {n \in DOMAIN reverse_map(map) : n <= LAST_INDEX /\ MaskOf(atlas_data, n) # {}}

final_label_lines(map, mapping_df, atlas_data) ==
  {[index |-> n,
    name |-> row_name(mapping_row(mapping_df, reverse_map(map)[n])),
    source |-> mapping_row(mapping_df, reverse_map(map)[n]).source]
     : n \in final_indices(map, atlas_data)}

final_lookup_lines(map, mapping_df, atlas_data) ==
  {[index |-> n,
    rgb |-> hemisphere_colour(mapping_row(mapping_df, reverse_map(map)[n]).source, n),
    name |-> row_name(mapping_row(mapping_df, reverse_map(map)[n])),
    source |-> mapping_row(mapping_df, reverse_map(map)[n]).source]
     : n \in final_indices(map, atlas_data)}

\* create_final_atlas.py validate_all_centroids looks up
\* reverse_hemisphere[new_idx] for every new_idx of range(1, 6), range(6, 60)
\* and range(60, 208): a missing index raises KeyError
final_validation_runs(map) == (1..LAST_INDEX) \subseteq DOMAIN reverse_map(map)

final_validation_rows(map, mapping_df, atlas_data, l, t, d) ==
  LET orig(n) == mapping_row(mapping_df, reverse_map(map)[n])
      layer_mask(n) ==
        IF n <= levinson_end THEN MaskOf(l, orig(n).old_index)
        ELSE IF n <= tian_right_end
        THEN MaskOf(t, orig(n).old_index - LEGACY_TIAN_OFFSET)
        ELSE MaskOf(d, orig(n).old_index - LEGACY_DES_OFFSET)
      dist(n) == distance_mm(centroid_mni(layer_mask(n)),
                             centroid_mni(MaskOf(atlas_data, n)))
  IN {[final_index |-> n, source |-> orig(n).source, distance |-> dist(n),
       match |-> IF closer_than(dist(n), 1) THEN "MATCH" ELSE "MISMATCH"]
        : n \in {k \in 1..LAST_INDEX : layer_mask(k) # {}}}

\* remake_atlas_hemisphere_order.py create_hemisphere_ordered_labels: the
\* sections are the fixed index ranges; a Tian line takes the next name of a
\* counter, not the name of the region's own code
InBand(map, lo, hi) == {n \in DOMAIN reverse_map(map) : lo <= n /\ n <= hi}

create_hemisphere_ordered_labels(map) ==
  LET rev == reverse_map(map)
      tl == InBand(map, levinson_end + 1, tian_left_end)
      tr == InBand(map, tian_left_end + 1, tian_right_end)
  IN {[index |-> n, name |-> levinson_label(rev[n]), source |-> "Levinson-Bari"]
        : n \in InBand(map, 1, levinson_end)}
     \cup {[index |-> n, name |-> tian_label(tian_left_counter + Rank(tl, n) - 1),
            source |-> "Tian-Melbourne-S4"] : n \in tl}
     \cup {[index |-> n, name |-> tian_label(tian_right_counter + Rank(tr, n) - 1),
            source |-> "Tian-Melbourne-S4"] : n \in tr}
     \cup {[index |-> n, name |-> destrieux_label(rev[n] - LEGACY_DES_OFFSET),
            source |-> "Destrieux"] : n \in InBand(map, tian_right_end + 1, LAST_INDEX)}

\* remake_atlas_hemisphere_order.py create_hemisphere_ordered_lookup_table
create_hemisphere_ordered_lookup_table(map) ==
  LET rev == reverse_map(map)
      tl == InBand(map, levinson_end + 1, tian_left_end)
      tr == InBand(map, tian_left_end + 1, tian_right_end)
      src(n) == IF n <= levinson_end THEN "Levinson"
                ELSE IF n <= tian_left_end THEN "Tian-S4-LH"
                ELSE IF n <= tian_right_end THEN "Tian-S4-RH"
                ELSE IF n <= des_left_end THEN "Destrieux-LH" ELSE "Destrieux-RH"
      nm(n) == IF n <= levinson_end THEN levinson_label(rev[n])
               ELSE IF n <= tian_left_end
               THEN tian_label(tian_left_counter + Rank(tl, n) - 1)
               ELSE IF n <= tian_right_end
               THEN tian_label(tian_right_counter + Rank(tr, n) - 1)
               ELSE destrieux_label(rev[n] - LEGACY_DES_OFFSET)
      col(n) == IF n <= levinson_end THEN hemisphere_colour("Levinson", n)
                ELSE IF n <= tian_right_end THEN hemisphere_colour("Tian", n)
                ELSE hemisphere_colour("Destrieux", n)
  IN {[index |-> n, rgb |-> col(n), name |-> nm(n), source |-> src(n)]
        : n \in DOMAIN rev}

\* remake_atlas_hemisphere_order.py validate_all_centroids: a row is written
\* only for a region that is a key of the map, has voxels in its aligned
\* layer and whose new index has a centroid in the sequential atlas
validate_all_centroids(map, seq_data, l, t, d) ==
  LET candidates ==
        {[source |-> "Levinson", old_index |-> k, mask |-> MaskOf(l, k)]
           : k \in 1..5}
        \cup {[source |-> "Tian", old_index |-> k + LEGACY_TIAN_OFFSET,
               mask |-> MaskOf(t, k)] : k \in 1..N_TIAN}
        \cup {[source |-> "Destrieux", old_index |-> k + LEGACY_DES_OFFSET,
               mask |-> MaskOf(d, k)] : k \in Unique(d) \ WALL_REGIONS}
      checked == {c \in candidates :
                    /\ c.old_index \in DOMAIN map
                    /\ c.mask # {}
                    /\ MaskOf(seq_data, map[c.old_index]) # {}}
      dist(c) == distance_mm(centroid_mni(c.mask),
                             centroid_mni(MaskOf(seq_data, map[c.old_index])))
  IN {[source |-> c.source, old_index |-> c.old_index,
       new_index |-> map[c.old_index], distance |-> dist(c),
       match_status |-> IF closer_than(dist(c), 2) THEN "MATCH" ELSE "MISMATCH"]
        : c \in checked}

\* create_csv_and_validate.py validate_centroids_across_atlases: every
\* Levinson and Tian code, and the first ten and last eleven Destrieux
\* codes, that is a key of reindexing_map.json, has voxels in its aligned
\* layer and whose new index has a centroid in levtiades_sequential
DES_SAMPLE == (1..10) \cup (140..150)
validate_centroids_across_atlases(map, seq_data, l, t, d) ==
  LET candidates ==
        {[source |-> "Levinson", old_index |-> k, mask |-> MaskOf(l, k)]
           : k \in 1..5}
        \cup {[source |-> "Tian", old_index |-> k + 100,
               mask |-> MaskOf(t, k)] : k \in 1..54}
        \cup {[source |-> "Destrieux", old_index |-> k + 200,
               mask |-> MaskOf(d, k)] : k \in DES_SAMPLE \ {0, 42, 117}}
      checked == {c \in candidates :
                    /\ c.old_index \in DOMAIN map
                    /\ c.mask # {}
                    /\ MaskOf(seq_data, map[c.old_index]) # {}}
      dist(c) == distance_mm(centroid_mni(c.mask),
                             centroid_mni(MaskOf(seq_data, map[c.old_index])))
  IN {[source |-> c.source, old_index |-> c.old_index,
       new_index |-> map[c.old_index], distance |-> dist(c),
       match_status |-> IF closer_than(dist(c), 2) THEN "MATCH" ELSE "MISMATCH"]
        : c \in checked}

\* validate_all_and_create_rois.py validate_all_centroids: reverse_reorder
\* is the reversed hemisphere_reorder_map.json, or the identity on 1..207
\* when that file does not exist
reverse_reorder_of(have_map, map) ==
  IF have_map THEN reverse_map(map) ELSE [i \in 1..207 |-> i]

\* a row for every index 1..207 of reverse_reorder whose old sequential
\* index has a row in index_mapping_reference.csv, whose original code has
\* voxels in its aligned layer and which has a centroid in
\* levtiades_sequential; the layer is chosen by the band of the new index
rois_validate_all_centroids(reverse_reorder, mapping_df, seq_data, l, t, d) ==
  LET orig_old_idx(n) == mapping_row(mapping_df, reverse_reorder[n]).old_index
      original_index(n) ==
        IF n <= 5 THEN orig_old_idx(n)
        ELSE IF n <= 59 THEN orig_old_idx(n) - 100
        ELSE orig_old_idx(n) - 200
      mask(n) ==
        IF n <= 5 THEN MaskOf(l, original_index(n))
        ELSE IF n <= 59 THEN MaskOf(t, original_index(n))
        ELSE MaskOf(d, original_index(n))
      checked == {n \in (1..207) \cap DOMAIN reverse_reorder :
                    /\ \E r \in mapping_df : r.new_index = reverse_reorder[n]
                    /\ mask(n) # {}
                    /\ MaskOf(seq_data, n) # {}}
      dist(n) == distance_mm(centroid_mni(mask(n)), centroid_mni(MaskOf(seq_data, n)))
  IN {[source |-> IF n <= 5 THEN "Levinson"
                  ELSE IF n <= 59 THEN "Tian" ELSE "Destrieux",
       original_index |-> original_index(n),
       old_sequential_index |-> reverse_reorder[n],
       new_hemisphere_index |-> n,
       distance |-> dist(n),
       match_status |-> IF closer_than(dist(n), 2) THEN "MATCH" ELSE "MISMATCH"]
        : n \in checked}

\* update_labels_final.py create_updated_label_file: the i-th Tian line (in
\* index order) takes the i-th name of the Tian label file
TianNewIndices(map) ==
  {n \in DOMAIN reverse_map(map) :
     reverse_map(map)[n] >= 100 /\ reverse_map(map)[n] < 200}

updated_name(map, n) ==
  LET old_idx == reverse_map(map)[n]
  IN IF old_idx < 100 THEN levinson_label(old_idx)
     ELSE IF old_idx < 200 THEN tian_label(Rank(TianNewIndices(map), n))
     ELSE destrieux_label(old_idx - LEGACY_DES_OFFSET)

create_updated_label_file(map) ==
  {[index |-> n, name |-> updated_name(map, n),
    source |-> IF reverse_map(map)[n] < 100 THEN "Levinson-Bari"
               ELSE IF reverse_map(map)[n] < 200 THEN "Tian-Melbourne-S4"
               ELSE "Destrieux"] : n \in DOMAIN reverse_map(map)}

\* update_labels_final.py create_updated_lookup_table
create_updated_lookup_table(map) ==
  LET rev == reverse_map(map)
      col(n) == IF rev[n] < 100
                THEN <<clamp(255 - rev[n] * 20), clamp(100 + rev[n] * 30), 50>>
                ELSE IF rev[n] < 200
                THEN <<clamp(50 + (n % 5) * 20), clamp(150 + (n % 10) * 10),
                       clamp(100 + (n % 5) * 20)>>
                ELSE <<clamp(100 + (n % 5) * 20), clamp(100 + (n % 10) * 10),
                       clamp(200 + (n % 3) * 20)>>
  IN {[index |-> n, rgb |-> col(n), name |-> updated_name(map, n),
       source |-> IF rev[n] < 100 THEN "Levinson"
                  ELSE IF rev[n] < 200 THEN "Tian-S4" ELSE "Destrieux"]
        : n \in DOMAIN rev}

\* ---------------------------------- 2_levtiades_to_mni2009c.py: catalogues
\* keys of the label files handed to create_label_files: the Tian file has
\* one name per line, the Destrieux file "index: name" lines for 1..150
\* (the background entry 0 is skipped when the file is written)
DES_RAW_KEYS == 1..150

\* des_labels of create_label_files: the names re-keyed through the medial
\* wall mapping, or (empty mapping) every raw key but the medial wall's
des_labels_of(des_label_mapping) ==
  IF DOMAIN des_label_mapping # {}
  THEN [n \in {des_label_mapping[o] : o \in DOMAIN des_label_mapping \cap DES_RAW_KEYS}
          |-> destrieux_label(CHOOSE o \in DOMAIN des_label_mapping :
                                des_label_mapping[o] = n)]
  ELSE [k \in DES_RAW_KEYS \ MEDIAL_WALL_LABELS |-> destrieux_label(k)]

\* labels_dict of create_label_files: Levinson entries first, then Tian at
\* k + 5, then Destrieux at k + 59 (a later entry replaces an earlier one)
create_labels_dict(des_label_mapping) ==
  LET des_labels == des_labels_of(des_label_mapping)
  IN [id \in DOMAIN LEVINSON_LABEL_NAMES
             \cup {k + TIAN_OFFSET : k \in 1..N_TIAN}
             \cup {k + DES_OFFSET : k \in DOMAIN des_labels} |->
        IF id - DES_OFFSET \in DOMAIN des_labels
        THEN [name |-> des_labels[id - DES_OFFSET], source |-> "Destrieux"]
        ELSE IF id - TIAN_OFFSET \in 1..N_TIAN
        THEN [name |-> tian_label(id - TIAN_OFFSET), source |-> "Tian"]
        ELSE [name |-> LEVINSON_LABEL_NAMES[id], source |-> "Levinson"]]

\* a colour rule that ignores the cortical band (every index above 5 is
\* coloured by the subcortical formula)
get_color_for_region_two_bands(label_id) ==
  IF label_id <= 5
  THEN <<clamp(200 + label_id * 10), clamp(50 + label_id * 20), 50>>
  ELSE LET k == label_id - 5
       IN <<50, clamp(150 + (k % 10) * 10), clamp(100 + (k % 5) * 20)>>

\* get_color_for_region
get_color_for_region(label_id) ==
  IF label_id <= 5
  THEN <<clamp(200 + label_id * 10), clamp(50 + label_id * 20), 50>>
  ELSE IF label_id <= 59
  THEN LET k == label_id - 5
       IN <<50, clamp(150 + (k % 10) * 10), clamp(100 + (k % 5) * 20)>>
  ELSE LET k == label_id - 59
       IN <<clamp(100 + (k % 5) * 20), clamp(100 + (k % 10) * 10),
            clamp(200 + (k % 3) * 20)>>

\* compute_region_stats: (centroid, voxel_count); centroid None for no voxels
compute_region_stats(atlas_data, label_id) ==
  [centroid |-> centroid_vox(MaskOf(atlas_data, label_id)),
   voxel_count |-> Count(MaskOf(atlas_data, label_id))]

\* the lines of levtiades_labels.txt, one per key of each label table, with
\* the world centroid where the hierarchical atlas has the label
main_label_lines(des_label_mapping, atlas_data) ==
  LET des_labels == des_labels_of(des_label_mapping)
      line(id, nm, src) == [index |-> id, name |-> nm, source |-> src,
                            coord |-> centroid_mni(MaskOf(atlas_data, id))]
  IN {line(k, LEVINSON_LABEL_NAMES[k], "Levinson") : k \in DOMAIN LEVINSON_LABEL_NAMES}
     \cup {line(k + TIAN_OFFSET, tian_label(k), "Tian") : k \in 1..N_TIAN}
     \cup {line(k + DES_OFFSET, des_labels[k], "Destrieux") : k \in DOMAIN des_labels}

\* the lines of levtiades_lookup_table.txt (colours computed inline, unclamped)
main_lookup_lines(des_label_mapping) ==
  LET des_labels == des_labels_of(des_label_mapping)
  IN {[index |-> k, rgb |-> <<200 + k * 10, 50 + k * 20, 50>>,
       name |-> LEVINSON_LABEL_NAMES[k], source |-> "Levinson"]
        : k \in DOMAIN LEVINSON_LABEL_NAMES}
     \cup {[index |-> k + TIAN_OFFSET,
            rgb |-> <<50, 150 + (k % 10) * 10, 100 + (k % 5) * 20>>,
            name |-> tian_label(k), source |-> "Tian"] : k \in 1..N_TIAN}
     \cup {[index |-> k + DES_OFFSET,
            rgb |-> <<100 + (k % 5) * 20, 100 + (k % 10) * 10, 200 + (k % 3) * 20>>,
            name |-> des_labels[k], source |-> "Destrieux"] : k \in DOMAIN des_labels}

\* create_comprehensive_csv: one row for every key of labels_dict
create_comprehensive_csv(atlas_data, ld) ==
  [label_id \in DOMAIN ld |->
     [region_name |-> ld[label_id].name,
      source_atlas |-> ld[label_id].source,
      rgb |-> get_color_for_region(label_id),
      centroid |-> compute_region_stats(atlas_data, label_id).centroid,
      world |-> centroid_mni(MaskOf(atlas_data, label_id)),
      voxel_count |-> compute_region_stats(atlas_data, label_id).voxel_count]]

\* analyze_region_takeovers: the "changes" list.  takeover_label 0 stands
\* for None (the report tests it for truth); ties of np.argmax go to the
\* smallest label
orig_mask_of(label_id, l, t, d) ==
  IF label_id <= 5 THEN MaskOf(l, label_id)
  ELSE IF label_id <= 59 THEN MaskOf(t, label_id - 5)
  ELSE MaskOf(d, label_id - 59)

most_common(vol, mask) ==
  LET present == {vol[v] : v \in {w \in mask : vol[w] > 0}}
      n(x) == Count({v \in mask : vol[v] = x})
  IN IF present = {} THEN 0
     ELSE CHOOSE x \in present :
            \A y \in present : n(y) < n(x) \/ (n(y) = n(x) /\ x <= y)

analyze_region_takeovers(l, t, d, hier_data, ld) ==
  LET orig(id) == orig_mask_of(id, l, t, d)
      fin(id) == MaskOf(hier_data, id)
      changed == {id \in DOMAIN ld :
                    Count(orig(id)) # 0 /\ Count(fin(id)) # Count(orig(id))}
  IN {[label_id |-> id,
       name |-> ld[id].name,
       source |-> ld[id].source,
       original_voxels |-> Count(orig(id)),
       final_voxels |-> Count(fin(id)),
       voxel_diff |-> Count(fin(id)) - Count(orig(id)),
       takeover_label |-> most_common(hier_data, orig(id) \ fin(id)),
       original_centroid |-> centroid_mni(orig(id)),
       final_centroid |-> centroid_mni(fin(id)),
       centroid_shift_mm |-> IF fin(id) # {}
                             THEN distance_mm(centroid_mni(fin(id)), centroid_mni(orig(id)))
                             ELSE NoneCoord] : id \in changed}

\* ----------------------------------------------------------------- actions
\* check_spatial_alignment: shapes, voxel sizes and affines all match
check_spatial_alignment(g) == g = "same"

\* -------------------------------- 2_levtiades_to_mni2009c.py: Levinson set
\* LEVINSON_COMPONENTS, in the order of the dict
LEVINSON_COMPONENTS ==
  << [key |-> "LC", label |-> 1], [key |-> "NTS", label |-> 2],
     [key |-> "VTA", label |-> 3], [key |-> "PAG", label |-> 4],
     [key |-> "DRN", label |-> 5] >>
ComponentKeys == {LEVINSON_COMPONENTS[i].key : i \in DOMAIN LEVINSON_COMPONENTS}
ComponentValues == {0, 1}
NoComponents == [k \in ComponentKeys |-> ZeroVol]

\* a combination that never paints over a voxel an earlier component holds
RECURSIVE combine_components_first_wins(_, _)
combine_components_first_wins(imgs, n) ==
  IF n = 0 THEN ZeroVol
  ELSE LET ref_data == combine_components_first_wins(imgs, n - 1)
           c == LEVINSON_COMPONENTS[n]
       IN [v \in Voxels |->
             IF imgs[c.key][v] > 0 /\ ref_data[v] = 0 THEN c.label ELSE ref_data[v]]

\* the loop of load_and_combine_levinson over the first n components:
\* data = (component on the LC grid) > 0; ref_data[data] = label
RECURSIVE combine_components(_, _)
combine_components(imgs, n) ==
  IF n = 0 THEN ZeroVol
  ELSE LET ref_data == combine_components(imgs, n - 1)
           c == LEVINSON_COMPONENTS[n]
       IN [v \in Voxels |-> IF imgs[c.key][v] > 0 THEN c.label ELSE ref_data[v]]

load_and_combine_levinson(imgs) ==
  combine_components(imgs, Len(LEVINSON_COMPONENTS))

\* ------------------------------------------------ individual ROI files
\* An ROI file levtiades_roi_<i:03d>.nii.gz is keyed by i: the padded name
\* is read back as int(...) and, for the indices of an atlas (under 1000),
\* the names sort in the order of the indices.
roi_mask(atlas_data, label) == [v \in Voxels |-> IF atlas_data[v] = label THEN 1 ELSE 0]

\* reindex_atlas.py create_sequential_individual_rois: for every new index
\* the mask atlas_data == old_idx, written when it has a voxel
create_sequential_individual_rois(map, atlas_data) ==
  LET reverse == reverse_map(map)
  IN [new_idx \in {n \in DOMAIN reverse : MaskOf(atlas_data, reverse[n]) # {}} |->
        roi_mask(atlas_data, reverse[new_idx])]

\* files written into a directory that keeps the files it already has
files_added(existing, new_files) ==
  [i \in DOMAIN existing \cup DOMAIN new_files |->
     IF i \in DOMAIN new_files THEN new_files[i] ELSE existing[i]]

\* fix_sequential_rois.py and create_individual_rois of create_final_atlas.py:
\* the directory is emptied, then one mask per label of the atlas
fix_sequential_rois(atlas_data) ==
  [label \in Unique(atlas_data) |-> roi_mask(atlas_data, label)]

create_individual_rois(atlas_data) ==
  [label \in Unique(atlas_data) |-> roi_mask(atlas_data, label)]

\* create_atlas_from_rois.py: atlas_data[roi_data > 0] = roi_num, file by file
create_atlas_from_rois(rois) ==
  [v \in Voxels |->
     LET covering == {i \in DOMAIN rois : rois[i][v] > 0}
     IN IF covering = {} THEN 0
        ELSE ToInt16(CHOOSE i \in covering : \A j \in covering : j <= i)]

\* ------------------------------------ create_atlas_variants.py: the report
NoReport == [total_brain_voxels |-> 0, total_overlap |-> 0]

\* create_overlap_report: total_overlap is the sum of the three pair counts
create_overlap_report(stats, l, t, d) ==
  [total_brain_voxels |-> Count({v \in Voxels : l[v] > 0 \/ t[v] > 0 \/ d[v] > 0}),
   total_overlap |-> stats.levinson_tian + stats.levinson_destrieux
                       + stats.tian_destrieux]

LegacyFlows == {"legacy", "legacy_fix", "legacy_final", "legacy_remake", "legacy_update",
                "legacy_rois"}

InitFiles ==
  /\ written = {}
  /\ des_nowall = ZeroVol /\ label_mapping = EmptyMap
  /\ flat = ZeroVol /\ overlaps = NoOverlaps
  /\ hier = ZeroVol /\ changes = NoChanges
  /\ flat_legacy = ZeroVol /\ hier_legacy = ZeroVol
  /\ temp = ZeroVol /\ seq = ZeroVol
  /\ hier_fixed = ZeroVol /\ reindex_map = EmptyMap
  /\ mapping_ref = {} /\ reorder_map = EmptyMap
  /\ label_seq = EmptyMap /\ lookup_seq = EmptyMap
  /\ label_file = {} /\ lookup_table = {} /\ validation = {}
  /\ labels_dict = EmptyMap /\ atlas_csv = EmptyMap /\ takeovers = {}
  /\ validation_seq = {} /\ validation_hemi = {}
  /\ levinson_combined = ZeroVol /\ roi_files = EmptyMap
  /\ overlap_report = NoReport

InitInputs ==
  /\ lev \in [Voxels -> LevCodes]
  /\ tian \in [Voxels -> TianCodes]
  /\ des \in [Voxels -> DesCodes]

\* The three layer files a script loads are on one grid ("same"), have one
\* shape but different affines ("affine"), or have three different shapes
\* ("shape").  2_levtiades_to_mni2009c.py and levtiades_refactor.py resample
\* every layer onto the target template before fusion, so their fusion
\* always receives one grid; the other scripts fuse the files they find.
Grids == {"same", "affine", "shape"}
GridFlows == {"recreate", "variants"} \cup LegacyFlows

InitFlow(F) ==
  /\ InitInputs /\ InitFiles
  /\ flow \in F /\ pc = "start" /\ rerun = FALSE /\ failed = FALSE
  /\ exit_code = "none"
  /\ grid \in (IF flow \in GridFlows THEN Grids ELSE {"same"})
  /\ flow = "combine" => lev = ZeroVol /\ tian = ZeroVol /\ des = ZeroVol
  /\ components \in (IF flow = "combine"
                     THEN [ComponentKeys -> [Voxels -> ComponentValues]]
                     ELSE {NoComponents})

\* the status the process ends with: exit(1) after a failed check and the
\* interpreter's status 1 after an uncaught exception, 0 otherwise
Exited == exit_code' = IF failed' THEN "nonzero" ELSE "zero"

\* a stage of a script; no stage writes the result files of the stand-alone
\* validators
Stage(F, from, to) ==
  /\ flow \in F /\ pc = from /\ pc' = to /\ ~failed
  /\ UNCHANGED <<inputs, flow, rerun, reportFiles>>

\* a stage that writes neither the combined Levinson image, nor ROI files,
\* nor the overlap report
Step(F, from, to) ==
  /\ Stage(F, from, to)
  /\ UNCHANGED toolFiles

\* an exception ends the script: nothing more is written
Crash(F, from) ==
  /\ Step(F, from, "crashed")
  /\ failed' = TRUE
  /\ UNCHANGED <<written, mainFiles, legacyFiles, reindexFiles, labelFiles, catalogFiles>>
  /\ Exited

\* 2_levtiades_to_mni2009c.py main(), step 2: align_all_to_target removes the
\* medial wall first; the resampling that follows is the external registration
Main_remove_medial_wall ==
  /\ Step({"main"}, "start", "wall")
  /\ des_nowall' = remove_medial_wall_vol(des)
  /\ label_mapping' = medial_wall_mapping(des)
  /\ written' = written \cup {"destrieux_no_medial_wall", "destrieux_label_mapping"}
  /\ UNCHANGED <<failed, flat, overlaps, hier, changes, legacyFiles, reindexFiles, labelFiles, catalogFiles>>
  /\ Exited

\* main(), step 3b, first call
Main_create_with_overlaps ==
  /\ Step({"main"}, "wall", "overlaps")
  /\ flat' = create_with_overlaps_flat(lev, tian, des_nowall, TIAN_OFFSET, DES_OFFSET)
  /\ overlaps' = overlap_stats(lev, tian, des_nowall)
  /\ written' = written \cup {"levtiades_multichannel", "levtiades_with_overlaps"}
  /\ UNCHANGED <<failed, des_nowall, label_mapping, hier, changes, legacyFiles, reindexFiles, labelFiles, catalogFiles>>
  /\ Exited

\* main(), step 3b, second call
Main_create_hierarchical ==
  /\ Step({"main"}, "overlaps", "hier")
  /\ hier' = create_hierarchical_vol(lev, tian, des_nowall, TIAN_OFFSET, DES_OFFSET)
  /\ changes' = hier_changes(lev, tian, des_nowall, TIAN_OFFSET, DES_OFFSET,
                             DES_OFFSET + 1, TIAN_OFFSET + 1, DES_OFFSET + 1)
  /\ written' = written \cup {"levtiades_no_overlaps_hierarchical_final"}
  /\ UNCHANGED <<failed, des_nowall, label_mapping, flat, overlaps, legacyFiles, reindexFiles, labelFiles, catalogFiles>>
  /\ Exited

\* levtiades_refactor.py: create_with_overlaps, then create_hierarchical
Refactor_create_with_overlaps ==
  /\ Step({"refactor"}, "start", "overlaps")
  /\ flat_legacy' = create_with_overlaps_flat(lev, tian, des,
                                              LEGACY_TIAN_OFFSET, LEGACY_DES_OFFSET)
  /\ overlaps' = overlap_stats(lev, tian, des)
  /\ written' = written \cup {"levtiades_multichannel", "levtiades_flat_with_overlaps"}
  /\ UNCHANGED <<failed, des_nowall, label_mapping, flat, hier, changes, hier_legacy, temp, seq, reindexFiles, labelFiles, catalogFiles>>
  /\ Exited

Refactor_create_hierarchical ==
  /\ Step({"refactor"}, "overlaps", "hier")
  /\ hier_legacy' = create_hierarchical_vol(lev, tian, des,
                                            LEGACY_TIAN_OFFSET, LEGACY_DES_OFFSET)
  /\ changes' = hier_changes(lev, tian, des, LEGACY_TIAN_OFFSET, LEGACY_DES_OFFSET,
                             LEGACY_DES_OFFSET + 1, LEGACY_TIAN_OFFSET + 1,
                             LEGACY_DES_OFFSET)
  /\ written' = written \cup {"levtiades_hierarchical"}
  /\ UNCHANGED <<failed, des_nowall, label_mapping, flat, overlaps, hier, flat_legacy, temp, seq, reindexFiles, labelFiles, catalogFiles>>
  /\ Exited

\* create_levtiades_atlas.py __main__: check_spatial_alignment, then (when
\* it returns False) align_atlases_to_common_space resamples Levinson and
\* Destrieux onto the Tian grid and saves the three aligned files, then
\* create_levtiades_hierarchical; lev, tian and des are the arrays fused
Legacy_create_levtiades_hierarchical ==
  /\ Step(LegacyFlows, "start", "hier")
  /\ hier_legacy' = create_hierarchical_vol(lev, tian, des,
                                            LEGACY_TIAN_OFFSET, LEGACY_DES_OFFSET)
  /\ changes' = hier_changes(lev, tian, des, LEGACY_TIAN_OFFSET, LEGACY_DES_OFFSET,
                             LEGACY_DES_OFFSET + 1, LEGACY_TIAN_OFFSET + 1,
                             LEGACY_DES_OFFSET)
  /\ written' = written \cup {"levtiades_hierarchical"}
                        \cup (IF check_spatial_alignment(grid) THEN {}
                              ELSE {"levinson_aligned", "tian_aligned", "destrieux_aligned"})
  /\ UNCHANGED <<failed, des_nowall, label_mapping, flat, overlaps, hier, flat_legacy, temp, seq, reindexFiles, labelFiles, catalogFiles>>
  /\ Exited

\* create_atlas_variants.py: create_with_overlaps_atlas loads the aligned
\* files and combines their masks (lev_mask & tian_mask): arrays of different
\* shapes raise ValueError before anything is written, the affines are not
\* looked at
Variants_create_with_overlaps_atlas ==
  \/ /\ grid = "shape"
     /\ Crash({"variants"}, "start")
  \/ /\ grid # "shape"
     /\ Step({"variants"}, "start", "overlaps")
     /\ flat_legacy' = variants_flat(lev, tian, des)
     /\ overlaps' = overlap_stats(lev, tian, des)
     /\ written' = written \cup {"levtiades_multichannel", "levtiades_flat_with_overlaps"}
     /\ UNCHANGED <<failed, des_nowall, label_mapping, flat, hier, changes, hier_legacy, temp, seq, reindexFiles, labelFiles, catalogFiles>>
     /\ Exited

\* recreate_atlas_simple.py: recreate_atlas_from_aligned.  combined_data has
\* the Levinson shape; a Tian or Destrieux mask of another shape raises
\* IndexError when it is used as an index, which happens only for a region
\* that has voxels (if np.any(mask)); the affines are not looked at
recreate_mask_mismatch(t, d) ==
  \/ \E v \in Voxels : t[v] \in 1..N_TIAN
  \/ \E v \in Voxels : d[v] > 0

Recreate_atlas_from_aligned ==
  \/ /\ grid = "shape" /\ recreate_mask_mismatch(tian, des)
     /\ Crash({"recreate"}, "start")
  \/ /\ ~(grid = "shape" /\ recreate_mask_mismatch(tian, des))
     /\ Step({"recreate"}, "start", "sequential")
     /\ temp' = recreate_combined(lev, tian, des)
     /\ seq' = recreate_sequential(recreate_combined(lev, tian, des))
     /\ written' = written \cup {"levtiades_temp", "levtiades_sequential"}
     /\ UNCHANGED <<failed, mainFiles, flat_legacy, hier_legacy, reindexFiles, labelFiles, catalogFiles>>
     /\ Exited


\* 2_levtiades_to_mni2009c.py main(), step 4: create_label_files
Main_create_label_files ==
  /\ Step({"main"}, "hier", "labels")
  /\ labels_dict' = create_labels_dict(label_mapping)
  /\ label_file' = main_label_lines(label_mapping, hier)
  /\ lookup_table' = main_lookup_lines(label_mapping)
  /\ written' = written \cup {"levtiades_labels", "levtiades_lookup_table"}
  /\ UNCHANGED <<failed, mainFiles, legacyFiles, reindexFiles, validation,
                 atlas_csv, takeovers>>
  /\ Exited

\* main(), step 5: create_comprehensive_csv
Main_create_comprehensive_csv ==
  /\ Step({"main"}, "labels", "csv")
  /\ atlas_csv' = create_comprehensive_csv(hier, labels_dict)
  /\ written' = written \cup {"levtiades_atlas_csv"}
  /\ UNCHANGED <<failed, mainFiles, legacyFiles, reindexFiles, labelFiles,
                 labels_dict, takeovers>>
  /\ Exited

\* main(), step 6: analyze_region_takeovers
Main_analyze_region_takeovers ==
  /\ Step({"main"}, "csv", "takeovers")
  /\ takeovers' = analyze_region_takeovers(lev, tian, des_nowall, hier, labels_dict)
  /\ written' = written \cup {"region_takeover_analysis"}
  /\ UNCHANGED <<failed, mainFiles, legacyFiles, reindexFiles, labelFiles,
                 labels_dict, atlas_csv>>
  /\ Exited

\* fix_and_create_rois.py: create_fixed_atlas on levtiades_hierarchical
Legacy_fix_and_create_rois ==
  /\ Step(LegacyFlows, "hier", "fixed")
  /\ hier_fixed' = create_fixed_atlas(hier_legacy)
  /\ written' = written \cup {"levtiades_hierarchical_fixed"}
  /\ UNCHANGED <<failed, mainFiles, legacyFiles, reindex_map, mapping_ref,
                 reorder_map, label_seq, lookup_seq, labelFiles, catalogFiles>>
  /\ Exited

\* reindex_atlas.py __main__: the map is saved first; the atlas, the label
\* file, the lookup table and the mapping reference follow unless the voxel
\* count check fails
Legacy_reindex_atlas ==
  /\ Stage(LegacyFlows, "fixed", "reindexed")
  /\ LET map == create_reindexing_map(hier_fixed)
         new_atlas_data == apply_index_map(map, hier_fixed)
     IN /\ reindex_map' = map
        /\ IF voxels_preserved(hier_fixed, new_atlas_data)
           THEN /\ seq' = new_atlas_data
                /\ label_seq' = create_sequential_label_file(map)
                /\ lookup_seq' = create_sequential_lookup_table(map)
                /\ roi_files' = files_added(roi_files,
                       create_sequential_individual_rois(map, new_atlas_data))
                /\ mapping_ref' = create_index_mapping_reference(map)
                /\ written' = written \cup {"reindexing_map", "levtiades_sequential",
                                            "index_mapping_reference"}
                /\ UNCHANGED failed
           ELSE /\ failed' = TRUE
                /\ written' = written \cup {"reindexing_map"}
                /\ UNCHANGED <<seq, label_seq, lookup_seq, mapping_ref, roi_files>>
  /\ UNCHANGED <<mainFiles, flat_legacy, hier_legacy, temp, hier_fixed,
                 reorder_map, labelFiles, catalogFiles,
                 levinson_combined, overlap_report>>
  /\ Exited

\* fix_hemisphere_ordering.py __main__: reads levtiades_sequential and the
\* mapping reference, saves the map, then overwrites levtiades_sequential
\* and levtiades_hierarchical and writes the label files
Fix_hemisphere_ordering ==
  /\ Step({"legacy_fix"}, "reindexed", "reordered")
  /\ LET map == create_hemisphere_reordering_map(mapping_ref)
         new_atlas_data == apply_index_map(map, seq)
     IN /\ reorder_map' = map
        /\ IF voxels_preserved(seq, new_atlas_data)
           THEN /\ seq' = new_atlas_data
                /\ hier_legacy' = new_atlas_data
                /\ label_file' = fix_label_lines(map, mapping_ref)
                /\ lookup_table' = fix_lookup_lines(map, mapping_ref)
                /\ written' = written \cup {"hemisphere_reorder_map", "levtiades_sequential",
                                            "levtiades_hierarchical", "levtiades_labels"}
                /\ UNCHANGED failed
           ELSE /\ failed' = TRUE
                /\ written' = written \cup {"hemisphere_reorder_map"}
                /\ UNCHANGED <<seq, hier_legacy, label_file, lookup_table>>
  /\ UNCHANGED <<mainFiles, flat_legacy, temp, hier_fixed, reindex_map,
                 mapping_ref, label_seq, lookup_seq, validation, catalogFiles>>
  /\ Exited

\* create_final_atlas.py __main__: overwrites levtiades_sequential, saves
\* the map, validates (KeyError unless every index 1..207 is mapped), then
\* rewrites the label files
Create_final_atlas ==
  /\ Stage({"legacy_final"}, "reindexed", "reordered")
  /\ LET map == create_hemisphere_reordering_map(mapping_ref)
         new_atlas_data == apply_index_map(map, seq)
     IN IF ~voxels_preserved(seq, new_atlas_data)
        THEN /\ failed' = TRUE
             /\ UNCHANGED <<seq, reorder_map, labelFiles, written, roi_files>>
        ELSE /\ seq' = new_atlas_data
             /\ reorder_map' = map
             /\ written' = written \cup {"hemisphere_reorder_map", "levtiades_sequential"}
             /\ IF final_validation_runs(map)
                THEN /\ validation' = final_validation_rows(map, mapping_ref,
                                                            new_atlas_data, lev, tian, des)
                     /\ label_file' = final_label_lines(map, mapping_ref, new_atlas_data)
                     /\ lookup_table' = final_lookup_lines(map, mapping_ref, new_atlas_data)
                     /\ roi_files' = create_individual_rois(new_atlas_data)
                     /\ UNCHANGED failed
                ELSE /\ failed' = TRUE
                     /\ UNCHANGED <<labelFiles, roi_files>>
  /\ UNCHANGED <<mainFiles, flat_legacy, hier_legacy, temp, hier_fixed, reindex_map,
                 mapping_ref, label_seq, lookup_seq, catalogFiles,
                 levinson_combined, overlap_report>>
  /\ Exited

\* remake_atlas_hemisphere_order.py __main__: reads levtiades_hierarchical_fixed
Remake_atlas_hemisphere_order ==
  /\ Step({"legacy_remake"}, "reindexed", "reordered")
  /\ LET map == create_hemisphere_ordered_reindexing_map(hier_fixed)
         new_atlas_data == apply_index_map(map, hier_fixed)
     IN /\ reorder_map' = map
        /\ IF voxels_preserved(hier_fixed, new_atlas_data)
           THEN /\ seq' = new_atlas_data
                /\ hier_legacy' = new_atlas_data
                /\ label_file' = create_hemisphere_ordered_labels(map)
                /\ lookup_table' = create_hemisphere_ordered_lookup_table(map)
                /\ validation' = validate_all_centroids(map, new_atlas_data, lev, tian, des)
                /\ written' = written \cup {"reindexing_map_hemisphere", "levtiades_sequential",
                                            "levtiades_hierarchical", "levtiades_labels",
                                            "centroid_validation_results_all"}
                /\ UNCHANGED failed
           ELSE /\ failed' = TRUE
                /\ written' = written \cup {"reindexing_map_hemisphere"}
                /\ UNCHANGED <<seq, hier_legacy, labelFiles>>
  /\ UNCHANGED <<mainFiles, flat_legacy, temp, hier_fixed, reindex_map,
                 mapping_ref, label_seq, lookup_seq, catalogFiles>>
  /\ Exited

\* update_labels_final.py __main__: label file and lookup table from
\* reindexing_map.json
Update_labels_final ==
  /\ Step({"legacy_update"}, "reindexed", "updated")
  /\ label_file' = create_updated_label_file(reindex_map)
  /\ lookup_table' = create_updated_lookup_table(reindex_map)
  /\ written' = written \cup {"levtiades_labels", "levtiades_lookup_table"}
  /\ UNCHANGED <<failed, mainFiles, legacyFiles, reindexFiles, validation, catalogFiles>>
  /\ Exited

\* the validation preceded by rename_atlas_files of the same script, which
\* moves levtiades_hierarchical_fixed over levtiades_hierarchical
Validate_centroids_after_rename ==
  /\ flow = "legacy" /\ pc = "reindexed" /\ ~failed
  /\ {"reindexing_map", "levtiades_sequential"} \subseteq written
  /\ validation_seq' = validate_centroids_across_atlases(reindex_map, seq, lev, tian, des)
  /\ hier_legacy' = hier_fixed
  /\ written' = written \cup {"centroid_validation_results", "validation_report"}
  /\ UNCHANGED <<inputs, ctl, failed, toolFiles, mainFiles, flat_legacy, temp, seq, reindexFiles,
                 labelFiles, catalogFiles, validation_hemi>>
  /\ Exited

\* create_csv_and_validate.py validate_centroids_across_atlases, run on the
\* files reindex_atlas.py left: it opens reindexing_map.json and
\* levtiades_sequential (an exception when one is missing) and writes the
\* result table and the report text
Validate_centroids_across_atlases ==
  /\ flow = "legacy" /\ pc = "reindexed" /\ ~failed
  /\ {"reindexing_map", "levtiades_sequential"} \subseteq written
  /\ validation_seq' = validate_centroids_across_atlases(reindex_map, seq, lev, tian, des)
  /\ written' = written \cup {"centroid_validation_results", "validation_report"}
  /\ UNCHANGED <<inputs, ctl, failed, toolFiles, mainFiles, legacyFiles, reindexFiles,
                 labelFiles, catalogFiles, validation_hemi>>
  /\ Exited

\* validate_all_and_create_rois.py validate_all_centroids, run before or
\* after fix_hemisphere_ordering.py: it reads hemisphere_reorder_map.json
\* when that exists, index_mapping_reference.csv and levtiades_sequential,
\* and writes the result table and the report text
Rois_validate_all_centroids ==
  /\ flow = "legacy_fix" /\ pc \in {"reindexed", "reordered"} /\ ~failed
  /\ {"index_mapping_reference", "levtiades_sequential"} \subseteq written
  /\ validation_hemi' =
       rois_validate_all_centroids(
         reverse_reorder_of("hemisphere_reorder_map" \in written, reorder_map),
         mapping_ref, seq, lev, tian, des)
  /\ written' = written \cup {"hemisphere_centroid_validation_all",
                              "hemisphere_validation_report_all"}
  /\ UNCHANGED <<inputs, ctl, failed, toolFiles, mainFiles, legacyFiles, reindexFiles,
                 labelFiles, catalogFiles, validation_seq>>
  /\ Exited

\* 1_setup_levtiades_project.py __main__: setup_levtiades_project returns
\* False at the first source atlas it does not find (for Destrieux: neither
\* on disk nor by download), having copied the ones before it; __main__ then
\* prints "Setup failed" and runs off its end
Setup_levtiades_project ==
  /\ Step({"setup"}, "start", "setup")
  /\ \E levinson_source, tian_source, destrieux_source \in BOOLEAN :
       LET success == levinson_source /\ tian_source /\ destrieux_source
       IN /\ failed' = ~success
          /\ written' = written
               \cup (IF levinson_source /\ tian_source
                     THEN {"tian_subcortical", "tian_labels"} ELSE {})
               \cup (IF success
                     THEN {"destrieux_cortical", "destrieux_labels", "atlas_info"}
                     ELSE {})
  /\ exit_code' = "zero"
  /\ UNCHANGED <<mainFiles, legacyFiles, reindexFiles, labelFiles, catalogFiles>>

\* 3_enhanced_qc_validation.py __main__: an exception raised inside
\* enhanced_qc_analysis (a directory or the report file that cannot be
\* written) is caught, two lines are printed and the script runs off its end
Enhanced_qc_analysis ==
  /\ Step({"qc"}, "start", "qc")
  /\ \E raised \in BOOLEAN :
       /\ failed' = raised
       /\ written' = written \cup (IF raised THEN {} ELSE {"EXPERT_QC_REPORT"})
  /\ exit_code' = "zero"
  /\ UNCHANGED <<mainFiles, legacyFiles, reindexFiles, labelFiles, catalogFiles>>

\* The user starts the same script (or chain) again on the files it left
\* 2_levtiades_to_mni2009c.py and levtiades_refactor.py main(), step 1:
\* load_and_combine_levinson raises FileNotFoundError when a component file
\* is missing, before anything is written
Load_and_combine_levinson ==
  /\ Stage({"combine"}, "start", "combined")
  /\ \E missing \in BOOLEAN :
       IF missing
       THEN /\ failed' = TRUE
            /\ UNCHANGED <<levinson_combined, written>>
       ELSE /\ levinson_combined' = load_and_combine_levinson(components)
            /\ written' = written \cup {"levinson_combined"}
            /\ UNCHANGED failed
  /\ UNCHANGED <<roi_files, overlap_report, mainFiles, legacyFiles, reindexFiles,
                 labelFiles, catalogFiles>>
  /\ Exited

\* create_atlas_variants.py main(), step 4: create_overlap_report
Variants_create_overlap_report ==
  /\ Stage({"variants"}, "overlaps", "report")
  /\ overlap_report' = create_overlap_report(overlaps, lev, tian, des)
  /\ written' = written \cup {"overlap_analysis_report"}
  /\ UNCHANGED <<failed, levinson_combined, roi_files, mainFiles, legacyFiles,
                 reindexFiles, labelFiles, catalogFiles>>
  /\ Exited

\* fix_sequential_rois.py: min(unique_labels) raises ValueError on an atlas
\* without labels, before the directory is touched
Fix_sequential_rois ==
  /\ Stage({"legacy_rois"}, "reindexed", "rois")
  /\ IF Unique(seq) = {}
     THEN /\ failed' = TRUE
          /\ UNCHANGED <<roi_files, written>>
     ELSE /\ roi_files' = fix_sequential_rois(seq)
          /\ written' = written \cup {"individual_rois_sequential"}
          /\ UNCHANGED failed
  /\ UNCHANGED <<levinson_combined, overlap_report, mainFiles, legacyFiles,
                 reindexFiles, labelFiles, catalogFiles>>
  /\ Exited

\* create_atlas_from_rois.py: returns without writing when the directory
\* holds no ROI file, else overwrites levtiades_sequential
Create_atlas_from_rois ==
  /\ Stage({"legacy_rois"}, "rois", "merged")
  /\ IF DOMAIN roi_files = {}
     THEN UNCHANGED <<seq, written>>
     ELSE /\ seq' = create_atlas_from_rois(roi_files)
          /\ written' = written \cup {"levtiades_sequential"}
  /\ UNCHANGED <<failed, toolFiles, mainFiles, flat_legacy, hier_legacy, temp,
                 reindexFiles, labelFiles, catalogFiles>>
  /\ Exited

RerunFlows == {"main", "legacy", "legacy_fix", "legacy_final", "legacy_remake"}
LastStage(f) ==
  IF f = "main" THEN "takeovers"
  ELSE IF f = "legacy" THEN "reindexed" ELSE "reordered"
FirstStage(f) == IF f \in {"main", "legacy"} THEN "start" ELSE "reindexed"

Run_again ==
  /\ flow \in RerunFlows /\ pc = LastStage(flow) /\ ~rerun
  /\ rerun' = TRUE /\ pc' = FirstStage(flow) /\ failed' = FALSE
  /\ exit_code' = "none"
  /\ UNCHANGED <<inputs, flow, written, mainFiles, legacyFiles, reindexFiles,
                 labelFiles, catalogFiles, reportFiles, toolFiles>>

\* ----------------------------------------------------------- specifications
FusionFlows == {"main", "refactor", "variants", "recreate", "legacy"}
InitFusion == InitFlow(FusionFlows)
NextFusion ==
  \/ Main_remove_medial_wall
  \/ Main_create_with_overlaps
  \/ Main_create_hierarchical
  \/ Refactor_create_with_overlaps
  \/ Refactor_create_hierarchical
  \/ Legacy_create_levtiades_hierarchical
  \/ Variants_create_with_overlaps_atlas
  \/ Recreate_atlas_from_aligned
SpecFusion == InitFusion /\ [][NextFusion]_vars

\* every script and chain, each of them run once and possibly once more
ToolFlows == {"setup", "qc"}
AllFlows == {"main", "refactor", "variants", "recreate", "combine"}
              \cup LegacyFlows \cup ToolFlows
Init == InitFlow(AllFlows)
Next ==
  \/ NextFusion
  \/ Main_create_label_files
  \/ Main_create_comprehensive_csv
  \/ Main_analyze_region_takeovers
  \/ Legacy_fix_and_create_rois
  \/ Legacy_reindex_atlas
  \/ Fix_hemisphere_ordering
  \/ Create_final_atlas
  \/ Remake_atlas_hemisphere_order
  \/ Update_labels_final
  \/ Validate_centroids_across_atlases
  \/ Rois_validate_all_centroids
  \/ Setup_levtiades_project
  \/ Enhanced_qc_analysis
  \/ Load_and_combine_levinson
  \/ Variants_create_overlap_report
  \/ Fix_sequential_rois
  \/ Create_atlas_from_rois
  \/ Run_again
Spec == Init /\ [][Next]_vars

\* fusion followed by reindexing, run twice on the same inputs
IdemFlows == {"main", "legacy"}
InitIdem ==
  /\ InitFlow(IdemFlows)
  /\ \A v \in Voxels : lev[v] \in {0, 1} /\ tian[v] \in {0, 1, 2} /\ des[v] \in {0, 1, 42}
  /\ grid = "same"
NextIdem ==
  \/ Main_remove_medial_wall
  \/ Main_create_with_overlaps
  \/ Main_create_hierarchical
  \/ Main_create_label_files
  \/ Main_create_comprehensive_csv
  \/ Main_analyze_region_takeovers
  \/ Legacy_create_levtiades_hierarchical
  \/ Legacy_fix_and_create_rois
  \/ Legacy_reindex_atlas
  \/ Run_again
SpecIdem == InitIdem /\ [][NextIdem]_vars

\* reindexing followed by a hemisphere reordering that reads the mapping
\* reference (fix_hemisphere_ordering.py, create_final_atlas.py)
ReorderFlows == {"legacy_fix", "legacy_final"}
InitReorder ==
  /\ InitFlow(ReorderFlows)
  /\ \A v \in Voxels : lev[v] \in {0, 1} /\ tian[v] \in {0, 1, 2} /\ des[v] \in {0, 1, 76, 151}
  /\ grid = "same"
NextReorder ==
  \/ Legacy_create_levtiades_hierarchical
  \/ Legacy_fix_and_create_rois
  \/ Legacy_reindex_atlas
  \/ Fix_hemisphere_ordering
  \/ Create_final_atlas
  \/ Run_again
SpecReorder == InitReorder /\ [][NextReorder]_vars

\* ------------------------------------------------------------------ claims
AnyLayer(l, t, d, v) == l[v] > 0 \/ t[v] > 0 \/ d[v] > 0

\* the banded code of the highest-priority layer that is non-zero at v
TopBandedCode(l, t, d, offT, offD, v) ==
  IF l[v] > 0 THEN l[v]
  ELSE IF t[v] > 0 THEN t[v] + offT
  ELSE d[v] + offD

Partition(vol, l, t, d, offT, offD) ==
  \A v \in Voxels :
    AnyLayer(l, t, d, v) =>
      /\ vol[v] # 0
      /\ vol[v] = TopBandedCode(l, t, d, offT, offD, v)

\* C1: partition invariant.  In every hierarchical volume written
\* (create_hierarchical of the main script and of levtiades_refactor.py,
\* create_levtiades_hierarchical, and the priority-resolved flat volume of
\* create_atlas_variants.py) each voxel at which some layer is non-zero is
\* non-zero and carries the banded code of the highest-priority layer
\* (Levinson > Tian > Destrieux) that is non-zero there.
C1_PartitionInvariant ==
  /\ (flow = "main" /\ pc = "hier") =>
        Partition(hier, lev, tian, des_nowall, TIAN_OFFSET, DES_OFFSET)
  /\ (flow \in {"refactor", "legacy"} /\ pc = "hier") =>
        Partition(hier_legacy, lev, tian, des, LEGACY_TIAN_OFFSET, LEGACY_DES_OFFSET)
  /\ (flow = "variants" /\ pc = "overlaps") =>
        Partition(flat_legacy, lev, tian, des, VARIANT_TIAN_OFFSET, VARIANT_DES_OFFSET)

\* a hierarchical volume of the main script in which one voxel is claimed by
\* all three layers and another one by Destrieux only
C1_Witness ==
  /\ flow = "main" /\ pc = "hier"
  /\ \E v \in Voxels : lev[v] > 0 /\ tian[v] > 0 /\ des_nowall[v] > 0 /\ hier[v] = lev[v]
  /\ \E v \in Voxels : lev[v] = 0 /\ tian[v] = 0 /\ des_nowall[v] > 0
                       /\ hier[v] = des_nowall[v] + DES_OFFSET

\* vol carries, at v, the code of a layer below the highest one non-zero at v
LowerCodeAt(vol, l, t, d, offT, offD, v) ==
  \/ l[v] > 0 /\ t[v] > 0 /\ vol[v] = t[v] + offT
  \/ l[v] > 0 /\ d[v] > 0 /\ vol[v] = d[v] + offD
  \/ t[v] > 0 /\ d[v] > 0 /\ vol[v] = d[v] + offD /\ t[v] + offT # d[v] + offD

NoLower(vol, l, t, d, offT, offD) ==
  \A v \in Voxels : ~LowerCodeAt(vol, l, t, d, offT, offD, v)

\* C2: no overwrite by lower priority.  In the hierarchical volume, in the
\* flat volume create_with_overlaps writes (reported as the main output) and
\* in the volume recreate_atlas_from_aligned rebuilds, no voxel at which a
\* higher-priority layer is non-zero carries a lower-priority layer's code.
C2_NoOverwriteByLower ==
  /\ (flow = "main" /\ pc = "hier") =>
        /\ NoLower(hier, lev, tian, des_nowall, TIAN_OFFSET, DES_OFFSET)
        /\ NoLower(flat, lev, tian, des_nowall, TIAN_OFFSET, DES_OFFSET)
  /\ (flow = "refactor" /\ pc = "hier") =>
        /\ NoLower(hier_legacy, lev, tian, des, LEGACY_TIAN_OFFSET, LEGACY_DES_OFFSET)
        /\ NoLower(flat_legacy, lev, tian, des, LEGACY_TIAN_OFFSET, LEGACY_DES_OFFSET)
  /\ (flow = "recreate" /\ pc = "sequential") =>
        NoLower(temp, lev, tian, des, LEGACY_TIAN_OFFSET, LEGACY_DES_OFFSET)

NonZero(vol) == {v \in Voxels : vol[v] # 0}
Claimed(l, t, d) == {v \in Voxels : AnyLayer(l, t, d, v)}

\* C5: conservation.  The number of non-zero voxels of the fused volume is
\* the number of voxels at which at least one layer is non-zero, whatever
\* positive local codes the layers hold.
C5_Conservation ==
  /\ (flow = "main" /\ pc = "hier") =>
        Cardinality(NonZero(hier)) = Cardinality(Claimed(lev, tian, des_nowall))
  /\ (flow \in {"refactor", "legacy"} /\ pc = "hier") =>
        Cardinality(NonZero(hier_legacy)) = Cardinality(Claimed(lev, tian, des))
  /\ (flow = "recreate" /\ pc = "sequential") =>
        Cardinality(NonZero(temp)) = Cardinality(Claimed(lev, tian, des))


\* the indices of s are exactly 1..K, K the number of regions present in the
\* fused volume f, and distinct regions of f have distinct indices
Contiguous(s, f) ==
  /\ Unique(s) = 1..Cardinality(Unique(f))
  /\ \A v, w \in Voxels : f[v] # f[w] => s[v] # s[w]

\* C3: index contiguity.  The indices present in the reindexed or
\* hemisphere-reordered atlas are exactly {1..K}, K being the number of
\* regions with at least one voxel in the fused volume, and no two regions
\* share an index (reindex_atlas and the reordering scripts against
\* levtiades_hierarchical_fixed, recreate_atlas_simple against its
\* band-coded volume).
C3_IndexContiguity ==
  /\ (flow \in LegacyFlows /\ pc \in {"reindexed", "reordered", "updated"})
       => Contiguous(seq, hier_fixed)
  /\ (flow = "recreate" /\ pc = "sequential") => Contiguous(seq, temp)

\* a local code of the layer has voxels in the layer and none in the fused
\* volume under its banded code
ExtinguishedIn(layer, off, fused) ==
  {k \in Unique(layer) : MaskOf(fused, k + off) = {}}

SomeExcludedOrExtinguished ==
  \/ \E v \in Voxels : des[v] \in MEDIAL_WALL_LABELS
  \/ ExtinguishedIn(tian, TIAN_OFFSET, hier) # {}
  \/ ExtinguishedIn(des_nowall, DES_OFFSET, hier) # {}

\* C4: the indices of the final atlas written by 2_levtiades_to_mni2009c.py
\* are exactly {1..K} with no gaps, also when medial-wall codes were
\* excluded before fusion or a region was extinguished during fusion.
C4_NoGapsAfterExclusion ==
  (flow = "main" /\ pc \in {"hier", "labels", "csv", "takeovers"}
     /\ SomeExcludedOrExtinguished)
    => Unique(hier) = 1..Cardinality(Unique(hier))

\* C6: idempotence.  When fusion followed by reindexing is run a second time
\* on the same input layers, every step of the second run leaves every file
\* (fused volume, index map, catalogue, colour table) as the first run
\* wrote it.
C6_Idempotence ==
  [][(rerun /\ rerun')
       => UNCHANGED <<mainFiles, legacyFiles, reindexFiles, labelFiles, catalogFiles>>]_vars

C6_Witness ==
  /\ flow = "legacy" /\ rerun /\ pc = "reindexed"
  /\ Cardinality(DOMAIN reindex_map) >= 2
  /\ \E v \in Voxels : seq[v] = 2 /\ hier_fixed[v] > 100

\* C7: region identity survives a re-run.  Running a hemisphere-reordering
\* script again on the files the first run left assigns every voxel the
\* index it had after the first run.
C7_RerunKeepsRegionIdentity ==
  [][(flow \in {"legacy_fix", "legacy_final"} /\ rerun
        /\ pc = "reindexed" /\ pc' = "reordered")
       => seq' = seq]_vars

\* the lines of a label list or lookup table name index i after the region
\* whose voxels carry i in the atlas
NamesMatch(lines, atlas, fused) ==
  \A v \in Voxels : atlas[v] > 0 =>
    /\ \E ln \in lines : ln.index = atlas[v]
    /\ \A ln \in lines : ln.index = atlas[v] => ln.name = band_name(fused[v])

\* C8: in the label list and the lookup table written by
\* remake_atlas_hemisphere_order.py and update_labels_final.py, the name
\* shown for index i is the name of the (source layer, local code) region
\* whose voxels carry index i in the sequential atlas, also when some local
\* code of a layer has no voxels.
C8_LabelNamesMatchRegions ==
  ((flow = "legacy_remake" /\ pc = "reordered" /\ ~failed)
     \/ (flow = "legacy_update" /\ pc = "updated"))
    => /\ NamesMatch(label_file, seq, hier_fixed)
       /\ NamesMatch(lookup_table, seq, hier_fixed)

\* labels of the main atlas whose region has voxels in its aligned layer and
\* none in the hierarchical volume
ExtinguishedLabels ==
  {id \in DOMAIN labels_dict :
     orig_mask_of(id, lev, tian, des_nowall) # {} /\ MaskOf(hier, id) = {}}

\* C9: a region that is entirely overwritten during fusion (voxel count 0
\* in the fused volume) is recorded as extinguished (the ledger shows it
\* with no final voxels) and has no entry in the region catalogue.
C9_ExtinguishedNotInCatalog ==
  (flow = "main" /\ pc = "takeovers") =>
    \A id \in ExtinguishedLabels :
      /\ \E c \in takeovers : c.label_id = id /\ c.final_voxels = 0
      /\ id \notin DOMAIN atlas_csv

\* band-coded regions the remake validator iterates over that have voxels in
\* their aligned layer and none in the fused volume
ExtinguishedLegacy ==
  {k \in Unique(lev) \cap (1..5) : MaskOf(hier_fixed, k) = {}}
  \cup {k + LEGACY_TIAN_OFFSET : k \in ExtinguishedIn(tian, LEGACY_TIAN_OFFSET, hier_fixed)
                                        \cap (1..N_TIAN)}
  \cup {k + LEGACY_DES_OFFSET : k \in ExtinguishedIn(des, LEGACY_DES_OFFSET, hier_fixed)
                                       \ WALL_REGIONS}

\* C10: for a region with voxels in its original layer and none in the
\* fused volume the validator emits a result that reports it as extinguished
\* and carries no distance; the region is not left out of the report.
C10_ExtinguishedReported ==
  /\ (flow = "main" /\ pc = "takeovers") =>
       \A id \in ExtinguishedLabels :
         \E c \in takeovers : /\ c.label_id = id
                              /\ c.final_voxels = 0
                              /\ c.centroid_shift_mm = NoneCoord
  /\ (flow = "legacy_remake" /\ pc = "reordered" /\ ~failed) =>
       \A old_idx \in ExtinguishedLegacy :
         \E r \in validation : r.old_index = old_idx

\* the catalogue or the takeover report of the main script accounts for the
\* region named nm under label id: a catalogue row with voxels (surviving)
\* or a takeover record with no final voxels (extinguished)
RecordedMain(id, nm) ==
  \/ /\ id \in DOMAIN atlas_csv
     /\ atlas_csv[id].region_name = nm
     /\ atlas_csv[id].voxel_count > 0
  \/ \E c \in takeovers : c.label_id = id /\ c.name = nm /\ c.final_voxels = 0

\* the medial-wall mapping file was written and leaves the code out
RecordedExcluded(k) ==
  /\ k \in MEDIAL_WALL_LABELS
  /\ "destrieux_label_mapping" \in written
  /\ k \notin DOMAIN label_mapping

\* C11: no silent truncation.  Every local code with at least one voxel in
\* its input layer is accounted for in what the run wrote: as surviving,
\* excluded or extinguished in the catalogue, mapping file and takeover
\* report of 2_levtiades_to_mni2009c.py, and (the only outputs of
\* recreate_atlas_simple.py being its volumes) under its band code in the
\* volume recreate_atlas_from_aligned saves.
C11_NoSilentTruncation ==
  /\ (flow = "main" /\ pc = "takeovers") =>
       /\ \A k \in Unique(lev) : RecordedMain(k, levinson_label(k))
       /\ \A k \in Unique(tian) : RecordedMain(k + TIAN_OFFSET, tian_label(k))
       /\ \A k \in Unique(des) :
            \/ RecordedExcluded(k)
            \/ /\ k \in DOMAIN label_mapping
               /\ RecordedMain(label_mapping[k] + DES_OFFSET, destrieux_label(k))
  /\ (flow = "recreate" /\ pc = "sequential") =>
       /\ \A k \in Unique(lev) : k \in Unique(temp)
       /\ \A k \in Unique(tian) : k + LEGACY_TIAN_OFFSET \in Unique(temp)
       /\ \A k \in Unique(des) : k + LEGACY_DES_OFFSET \in Unique(temp)

\* the files that hold a fused volume
FusedVolumes ==
  {"levtiades_temp", "levtiades_sequential", "levtiades_hierarchical",
   "levtiades_flat_with_overlaps", "levtiades_multichannel",
   "levtiades_with_overlaps", "levtiades_no_overlaps_hierarchical_final"}

\* C12: when the layer files loaded for fusion are not all on one grid (same
\* shape and same affine), the fusing script reports failure and no fused
\* volume has been written; it neither resamples and goes on nor fuses the
\* arrays as they are.
C12_GridMismatchIsFatal ==
  (grid # "same" /\ pc # "start") => (failed /\ written \cap FusedVolumes = {})

\* C13: a failed run writes nothing.  In the step in which reindex_atlas.py
\* or fix_hemisphere_ordering.py reports failure (the voxel count check
\* after the map was applied does not hold), no output file of the run (map
\* file, atlas volume, label list, lookup table) is created or modified.
C13_FailedRunWritesNothing ==
  [][((\/ pc = "fixed" /\ pc' = "reindexed"
       \/ flow = "legacy_fix" /\ pc = "reindexed" /\ pc' = "reordered")
      /\ failed')
       => UNCHANGED <<written, legacyFiles, reindexFiles, labelFiles>>]_vars

\* the map gives every region present in the atlas a rank of its own
OneToOneCover(map, atlas) ==
  /\ Unique(atlas) \subseteq DOMAIN map
  /\ \A a, b \in Unique(atlas) \cap DOMAIN map : a # b => map[a] # map[b]

DestrieuxEntries == {id \in DOMAIN labels_dict : labels_dict[id].source = "Destrieux"}

\* the Destrieux codes present in the layer that are not excluded
KeptCodes == Unique(des) \ MEDIAL_WALL_LABELS

\* C15: excluding the medial-wall codes from the Destrieux layer before
\* fusion leaves exactly (codes present minus excluded codes present)
\* Destrieux entries in the catalogue, the remaining codes are renumbered
\* 1, 2, ... in ascending order of their original code, the old-to-new
\* mapping is written, and each entry carries the name of its original code.
C15_ExclusionRenumbersAndRecords ==
  (flow = "main" /\ pc \in {"labels", "csv", "takeovers"}) =>
    /\ Cardinality(DestrieuxEntries) = Cardinality(KeptCodes)
    /\ "destrieux_label_mapping" \in written
    /\ DOMAIN label_mapping = KeptCodes
    /\ \A k \in KeptCodes :
         /\ label_mapping[k] = Rank(KeptCodes, k)
         /\ label_mapping[k] + DES_OFFSET \in DestrieuxEntries
         /\ labels_dict[label_mapping[k] + DES_OFFSET].name = destrieux_label(k)

\* exactly the layer x has voxels; the other two layers a and b are empty
SingleLayer(x, a, b) == x # ZeroVol /\ a = ZeroVol /\ b = ZeroVol

\* the takeover report carries a record for label id whose centroid shift
\* is 0.0 mm
ZeroShiftReported(id) ==
  \E c \in takeovers :
    /\ c.label_id = id
    /\ c.centroid_shift_mm # NoneCoord
    /\ c.centroid_shift_mm[1] = 0

\* C16: degenerate single-layer fusion.  When exactly one of the three
\* layers has voxels, whichever it is, the hierarchical volume written by
\* 2_levtiades_to_mni2009c.py equals that layer's input volume voxel for
\* voxel, and the takeover analysis reports a centroid distance of 0.0 for
\* every region of that layer.
C16_SingleLayerIdentity ==
  (flow = "main" /\ pc = "takeovers") =>
    /\ SingleLayer(lev, tian, des) =>
         /\ hier = lev
         /\ \A k \in Unique(lev) : ZeroShiftReported(k)
    /\ SingleLayer(tian, lev, des) =>
         /\ hier = tian
         /\ \A k \in Unique(tian) : ZeroShiftReported(k + TIAN_OFFSET)
    /\ SingleLayer(des, lev, tian) =>
         /\ hier = des
         /\ \A k \in Unique(des) : ZeroShiftReported(k + DES_OFFSET)

\* the voxels a layer occupies
Occupied(layer) == {v \in Voxels : layer[v] # 0}

\* the Destrieux layer as it is handed to the fusion: 2_levtiades_to_mni2009c.py
\* fuses the volume without the medial wall, the other scripts the aligned one
FusedDestrieux == IF flow = "main" THEN des_nowall ELSE des

\* C17: overlap statistics.  Once create_with_overlaps (or
\* create_with_overlaps_atlas) has run, its overlap statistics give for each
\* unordered pair of layers, and for the three layers together, the number
\* of voxels where every layer of the set is non-zero; in particular a
\* layer occupying voxel 1 and a layer occupying voxels 1 and 2 overlap in
\* exactly one voxel.
C17_OverlapStatistics ==
  (flow \in {"main", "refactor", "variants"} /\ pc = "overlaps") =>
    /\ overlaps.levinson_tian = Cardinality(Occupied(lev) \cap Occupied(tian))
    /\ overlaps.levinson_destrieux =
         Cardinality(Occupied(lev) \cap Occupied(FusedDestrieux))
    /\ overlaps.tian_destrieux =
         Cardinality(Occupied(tian) \cap Occupied(FusedDestrieux))
    /\ overlaps.all_three =
         Cardinality(Occupied(lev) \cap Occupied(tian) \cap Occupied(FusedDestrieux))
    /\ (Occupied(lev) = {1} /\ Occupied(tian) = {1, 2}) =>
         overlaps.levinson_tian = 1
    /\ (Occupied(tian) = {1} /\ Occupied(FusedDestrieux) = {1, 2}) =>
         overlaps.tian_destrieux = 1
    /\ (Occupied(lev) = {1} /\ Occupied(FusedDestrieux) = {1, 2}) =>
         overlaps.levinson_destrieux = 1

\* the two-layer example has been fused by the main script, with a third
\* layer that claims the shared voxel as well
C17_Witness ==
  /\ flow = "main" /\ pc = "overlaps"
  /\ Occupied(lev) = {1} /\ Occupied(tian) = {1, 2} /\ Occupied(des_nowall) = {1}
  /\ overlaps.levinson_tian = 1 /\ overlaps.all_three = 1

\* the files a validation writes
ReportNames ==
  {"region_takeover_analysis", "centroid_validation_results", "validation_report",
   "hemisphere_centroid_validation_all", "hemisphere_validation_report_all"}

\* a step taken by one of the three validators: the takeover analysis of the
\* main script, or a stand-alone validator (the only steps that leave the
\* stage of the legacy chain where it is)
ValidationStep ==
  \/ flow = "main" /\ pc = "csv" /\ pc' = "takeovers"
  \/ flow \in {"legacy", "legacy_fix"} /\ pc' = pc

C19_FailureExitsNonZero == failed => exit_code = "nonzero"

\* tolerances (mm) a caller may ask for: the strict tier, the looser tier
\* and a third value
Tolerances == {1, 2, 3}

\* C20: verdict against the caller's tolerance.  In the validation table
\* written by create_final_atlas.py and by remake_atlas_hemisphere_order.py
\* a region passes exactly when its original-to-final centroid distance is
\* below the tolerance the caller supplied, whichever tolerance that is.
C20_VerdictAgainstCallerTolerance ==
  \A tolerance_mm \in Tolerances :
    /\ (flow = "legacy_final" /\ pc = "reordered" /\ ~failed) =>
         \A r \in validation :
           (r.match = "MATCH") <=> closer_than(r.distance, tolerance_mm)
    /\ (flow = "legacy_remake" /\ pc = "reordered" /\ ~failed) =>
         \A r \in validation :
           (r.match_status = "MATCH") <=> closer_than(r.distance, tolerance_mm)

\* the layer a fused code of the main script is read as: 1..5 Levinson,
\* 6..59 Tian, 60 and above Destrieux
LayerOfCode(x) ==
  IF x <= 5 THEN "Levinson" ELSE IF x <= 59 THEN "Tian" ELSE "Destrieux"

\* the layer that owns voxel v of the fused volume
LayerAt(v) ==
  IF lev[v] > 0 THEN "Levinson" ELSE IF tian[v] > 0 THEN "Tian" ELSE "Destrieux"

\* C21: layer-reserved bands.  In the hierarchical volume of
\* 2_levtiades_to_mni2009c.py, whatever the local codes of the inputs, no
\* two regions of different layers receive the same fused code, and the
\* layer that owns a fused voxel is the one its value's band names.
C21_BandsNeverCollide ==
  (flow = "main" /\ pc = "hier") =>
    /\ \A a \in Unique(lev), b \in Unique(tian) : a # b + TIAN_OFFSET
    /\ \A a \in Unique(lev), b \in Unique(des_nowall) : a # b + DES_OFFSET
    /\ \A a \in Unique(tian), b \in Unique(des_nowall) :
         a + TIAN_OFFSET # b + DES_OFFSET
    /\ \A v \in Voxels : hier[v] # 0 => LayerOfCode(hier[v]) = LayerAt(v)

\* voxels a region lost during fusion: its count in its own layer minus the
\* count of its banded code in the fused volume
VoxelsLost(layer, k, off) == Count(MaskOf(layer, k)) - Count(MaskOf(hier, k + off))

\* C22: replacement ledger.  For every region of a lower-priority layer
\* that lost voxels during the fusion of 2_levtiades_to_mni2009c.py, the
\* changes ledger returned by create_hierarchical has an entry for that
\* (layer, local code) whose count is the number of voxels the region lost,
\* whether they went to the next layer up or from Destrieux straight to
\* Levinson.
C22_LedgerCountsEveryLoss ==
  (flow = "main" /\ pc = "hier") =>
    /\ \A k \in Unique(tian) :
         VoxelsLost(tian, k, TIAN_OFFSET) > 0 =>
           /\ k \in DOMAIN changes.tian_regions_affected
           /\ changes.tian_regions_affected[k] = VoxelsLost(tian, k, TIAN_OFFSET)
    /\ \A k \in Unique(des_nowall) :
         VoxelsLost(des_nowall, k, DES_OFFSET) > 0 =>
           /\ k \in DOMAIN changes.destrieux_regions_affected
           /\ changes.destrieux_regions_affected[k] =
                VoxelsLost(des_nowall, k, DES_OFFSET)

\* traversal key of a band-coded region (Levinson < 100, Tian 101..154,
\* Destrieux 201..350): layer, then hemisphere with left first, then local
\* code.  Tian local codes 28..54 are the left (-lh) structures and 1..27
\* the right ones; Destrieux 1..75 are left and 76..150 right.
LayerRank(b) == IF b < 100 THEN 1 ELSE IF b < 200 THEN 2 ELSE 3
HemisphereRank(b) ==
  IF b < 100 THEN 0
  ELSE IF b < 200 THEN (IF b - LEGACY_TIAN_OFFSET >= 28 THEN 1 ELSE 2)
  ELSE (IF b - LEGACY_DES_OFFSET <= 75 THEN 1 ELSE 2)
EarlierInTraversal(a, b) ==
  \/ LayerRank(a) < LayerRank(b)
  \/ LayerRank(a) = LayerRank(b) /\ HemisphereRank(a) < HemisphereRank(b)
  \/ LayerRank(a) = LayerRank(b) /\ HemisphereRank(a) = HemisphereRank(b) /\ a < b

\* the regions of the fixed hierarchical atlas that have a hemisphere table
\* entry, and the index a reordering run gave each of them
OrderedRegions ==
  {b \in Unique(hier_fixed) :
     b < 100 \/ (b > 100 /\ b <= 154) \/ (b > 200 /\ b <= 350)}
FinalIndexOf(b) ==
  IF flow = "legacy_remake" THEN reorder_map[b] ELSE reorder_map[reindex_map[b]]

\* C23: traversal order.  After a successful hemisphere reordering
\* (fix_hemisphere_ordering.py, create_final_atlas.py,
\* remake_atlas_hemisphere_order.py) the sequential indices follow source
\* layer, then hemisphere (left before right), then ascending local code: of
\* two regions present, the earlier in this order has the smaller index.
C23_IndicesFollowTraversalOrder ==
  (flow \in {"legacy_fix", "legacy_final", "legacy_remake"}
     /\ pc = "reordered" /\ ~failed /\ ~rerun) =>
    \A a, b \in OrderedRegions :
      EarlierInTraversal(a, b) => FinalIndexOf(a) < FinalIndexOf(b)

\* ---------------------------------------------------------------- C24
\* C24: a region's colour is a function of its index alone: every index of
\* the catalog CSV has a line in the lookup table, and every lookup-table
\* line for that index carries the RGB triple of the CSV row.
C24_CatalogColourEqualsLookupColour ==
  (flow = "main" /\ pc \in {"csv", "takeovers"} /\ ~failed) =>
    \A i \in DOMAIN atlas_csv :
      /\ \E r \in lookup_table : r.index = i
      /\ \A r \in lookup_table : r.index = i => r.rgb = atlas_csv[i].rgb

\* a main run has written the CSV with rows of all three layers, and the
\* cortical row 60 carries the colour of the lookup line 60
C24_Witness ==
  /\ flow = "main" /\ pc = "csv" /\ ~failed
  /\ {1, 6, 60} \subseteq DOMAIN atlas_csv
  /\ \E r \in lookup_table : r.index = 60 /\ r.rgb = atlas_csv[60].rgb
  /\ atlas_csv[60].rgb # atlas_csv[6].rgb

\* ---------------------------------------------------------------- C25
\* two voxels share a label after the map is applied exactly when they
\* shared one before
OnlyRenames(old_data, new_data) ==
  \A u, v \in Voxels : (new_data[u] = new_data[v]) <=> (old_data[u] = old_data[v])

\* the scripts that apply an index map: reindex_atlas.py on the fixed
\* hierarchical atlas, fix_hemisphere_ordering.py on the sequential atlas,
\* remake_atlas_hemisphere_order.py on the fixed hierarchical atlas
ReindexApplied == flow \in LegacyFlows /\ pc = "fixed" /\ pc' = "reindexed"
ReorderApplied == flow = "legacy_fix" /\ pc = "reindexed" /\ pc' = "reordered"
RemakeApplied == flow = "legacy_remake" /\ pc = "reindexed" /\ pc' = "reordered"

\* C25: whenever a reindexing or hemisphere reordering run succeeds, the atlas
\* it writes is the atlas it read with the regions renamed: two voxels have
\* the same new index if and only if they had the same old label.
C25_IndexMapOnlyRenames ==
  [][~failed' =>
       /\ ReindexApplied => OnlyRenames(hier_fixed, seq')
       /\ ReorderApplied => OnlyRenames(seq, seq')
       /\ RemakeApplied => OnlyRenames(hier_fixed, seq')]_vars

\* a successful hemisphere reordering has renamed two different regions
C25_Witness ==
  /\ flow = "legacy_fix" /\ pc = "reordered" /\ ~failed
  /\ \E u, v \in Voxels : seq[u] # seq[v] /\ seq[u] > 0 /\ seq[v] > 0
                          /\ hier_fixed[u] # hier_fixed[v]
  /\ \E v \in Voxels : reindex_map[hier_fixed[v]] # seq[v]

\* ---------------------------------------------------------------- C26
\* correct_hemisphere_atlas.py create_correct_hemisphere_atlas: the group of a
\* row of index_mapping_reference.csv (1 Levinson, 2 Tian left = local code
\* >= 28, 3 Tian right, 4 Destrieux left, 5 Destrieux right, 0 dropped) ...
correct_hemisphere_group(row) ==
  IF row.source = "Levinson" THEN 1
  ELSE IF row.source = "Tian"
       THEN (IF row.old_index - LEGACY_TIAN_OFFSET >= 28 THEN 2 ELSE 3)
  ELSE IF row.source = "Destrieux" /\ des_name_hemisphere(row.region_name) = "L" THEN 4
  ELSE IF row.source = "Destrieux" /\ des_name_hemisphere(row.region_name) = "R" THEN 5
  ELSE 0

\* ... the column a group is sorted by (Tian rows by old_index, the others
\* by new_index) ...
correct_hemisphere_key(row) ==
  IF row.source = "Tian" THEN row.old_index ELSE row.new_index

\* ... and hemisphere_map: the rows' new_index numbered 1, 2, ... group by group
create_correct_hemisphere_map(mapping_df) ==
  LET rows == {r \in mapping_df : correct_hemisphere_group(r) # 0}
      before(q, r) ==
        \/ correct_hemisphere_group(q) < correct_hemisphere_group(r)
        \/ /\ correct_hemisphere_group(q) = correct_hemisphere_group(r)
           /\ correct_hemisphere_key(q) < correct_hemisphere_key(r)
  IN [idx \in RowsIndexes(rows) |->
        Cardinality({q \in rows : before(q, mapping_row(rows, idx))}) + 1]

\* C26: the reordering scripts put a Tian code in the same hemisphere, so the
\* atlas left by fix_hemisphere_ordering.py, create_final_atlas.py or
\* remake_atlas_hemisphere_order.py is the atlas correct_hemisphere_atlas.py
\* computes from the same sequential atlas and mapping reference.
C26_ReorderingScriptsAgree ==
  (flow \in {"legacy_fix", "legacy_final", "legacy_remake"}
     /\ pc = "reordered" /\ ~failed /\ ~rerun) =>
    seq = apply_index_map(create_correct_hemisphere_map(mapping_ref),
                          apply_index_map(reindex_map, hier_fixed))

\* ---------------------------------------------------------------- C27
\* the sum of the three replacement counters
ReplacedTotal ==
  changes.destrieux_replaced_by_tian + changes.tian_replaced_by_levinson
    + changes.destrieux_replaced_by_levinson

\* C27: the three replacement counters of create_hierarchical add up to the
\* voxels claimed by the three layers minus the voxels of the fused volume.
C27_CountersAccountForOverlap ==
  (flow = "main" /\ pc = "hier") =>
    ReplacedTotal = Count(NonZero(lev)) + Count(NonZero(tian))
                      + Count(NonZero(des_nowall)) - Count(NonZero(hier))

\* a fusion where one voxel is claimed by all three layers (two replacements)
C27_Witness ==
  /\ flow = "main" /\ pc = "hier"
  /\ \E v \in Voxels : lev[v] > 0 /\ tian[v] > 0 /\ des_nowall[v] > 0
  /\ ReplacedTotal >= 2

\* ---------------------------------------------------------------- C28
\* the labels of the components whose mask covers voxel v
Covering(v) ==
  {LEVINSON_COMPONENTS[i].label :
     i \in {j \in DOMAIN LEVINSON_COMPONENTS : components[LEVINSON_COMPONENTS[j].key][v] > 0}}

\* C28: in the combined Levinson layer a voxel is non-zero exactly when at
\* least one of the five component masks covers it, and a voxel covered by
\* several components carries the label of the last one in the order
\* LC (1), NTS (2), VTA (3), PAG (4), DRN (5).
C28_LastComponentWins ==
  (flow = "combine" /\ pc = "combined" /\ ~failed) =>
    \A v \in Voxels :
      /\ levinson_combined[v] # 0 <=> Covering(v) # {}
      /\ Covering(v) # {} =>
           /\ levinson_combined[v] \in Covering(v)
           /\ \A c \in Covering(v) : c <= levinson_combined[v]

\* a combination in which NTS and PAG overlap on one voxel, which carries 4,
\* while the other voxel is covered by no component
C28_Witness ==
  /\ flow = "combine" /\ pc = "combined" /\ ~failed
  /\ \E v \in Voxels : Covering(v) = {2, 4} /\ levinson_combined[v] = 4
  /\ \E v \in Voxels : Covering(v) = {} /\ levinson_combined[v] = 0

\* ---------------------------------------------------------------- C29
\* the ROI directory holds one file per index of the atlas, each with
\* exactly the voxels of its index
RoisMatchAtlas(rois, atlas_data) ==
  /\ DOMAIN rois = Unique(atlas_data)
  /\ \A i \in DOMAIN rois : \A v \in Voxels : rois[i][v] # 0 <=> atlas_data[v] = i

\* a script that writes the ROI files of the sequential atlas has finished
RoisWritten ==
  \/ flow \in {"legacy", "legacy_rois"} /\ pc = "reindexed"
  \/ flow = "legacy_rois" /\ pc \in {"rois", "merged"}

\* C29: once the ROI files have been written there is, for every index i of
\* the sequential atlas, exactly one file levtiades_roi_<i> whose non-zero
\* voxels are the atlas voxels with index i, and merging the files gives the
\* sequential atlas back.
C29_RoiFilesPartitionAtlas ==
  (RoisWritten /\ ~failed) =>
    /\ RoisMatchAtlas(roi_files, seq)
    /\ create_atlas_from_rois(roi_files) = seq

\* ---------------------------------------------------------------- C30
\* voxels claimed by two or more of the three layers
ClaimedTwice(l, t, d) ==
  {v \in Voxels : \/ l[v] > 0 /\ t[v] > 0
                  \/ l[v] > 0 /\ d[v] > 0
                  \/ t[v] > 0 /\ d[v] > 0}

\* C30: the "total overlapping voxels" figure of the overlap report is the
\* number of voxels claimed by two or more layers, each counted once.
C30_TotalOverlapCountsVoxelsOnce ==
  (flow = "variants" /\ pc = "report" /\ ~failed) =>
    overlap_report.total_overlap = Count(ClaimedTwice(lev, tian, des))

====
